---- MODULE Spec2Model ----
(***************************************************************************)
(* Price-discovery and reconciliation pipeline of billio-backend.          *)
(*                                                                         *)
(* Text is a sequence of one-character strings; a Python value that may be *)
(* None, a string, a number or something else is a tagged record.  Money   *)
(* is counted in hundredths (Decimal("229.99") is 22999).                  *)
(***************************************************************************)
EXTENDS Integers, Sequences, FiniteSets, TLC

(***************************************************************************)
(* Python values                                                           *)
(***************************************************************************)
PyNone == [t |-> "None"]
PyStr(s) == [t |-> "str", s |-> s]
PyNum(c) == [t |-> "num", c |-> c]
\* a value of a shape the code does not expect (a list, a bare integer
\* where text is expected, ...)
PyObj == [t |-> "obj"]

\* bool(v) as Python computes it for the values above
Truthy(v) ==
    CASE v.t = "None" -> FALSE
      [] v.t = "str"  -> v.s # <<>>
      [] v.t = "num"  -> v.c # 0
      [] v.t = "list" -> v.items # <<>>
      [] OTHER        -> TRUE

(***************************************************************************)
(* Characters and text                                                     *)
(***************************************************************************)
Digits == {"0", "1", "2", "3", "4", "5", "6", "7", "8", "9"}

DigitVal(c) ==
    CASE c = "0" -> 0 [] c = "1" -> 1 [] c = "2" -> 2 [] c = "3" -> 3
      [] c = "4" -> 4 [] c = "5" -> 5 [] c = "6" -> 6 [] c = "7" -> 7
      [] c = "8" -> 8 [] c = "9" -> 9

\* the characters \s and str.strip() treat as blank (those the model uses)
Blank == {" ", "\n", "\t"}

UpperCase == <<"A", "B", "C", "D", "E", "F", "G", "H", "I", "J", "K", "L", "M",
               "N", "O", "P", "Q", "R", "S", "T", "U", "V", "W", "X", "Y", "Z">>
LowerCase == <<"a", "b", "c", "d", "e", "f", "g", "h", "i", "j", "k", "l", "m",
               "n", "o", "p", "q", "r", "s", "t", "u", "v", "w", "x", "y", "z">>

LowerChar(c) ==
    IF \E i \in 1..26 : UpperCase[i] = c
    THEN LowerCase[CHOOSE i \in 1..26 : UpperCase[i] = c]
    ELSE c

\* str.lower()
Lower(s) == [i \in 1..Len(s) |-> LowerChar(s[i])]

\* str.strip()
Strip(s) ==
    IF \A i \in 1..Len(s) : s[i] \in Blank
    THEN <<>>
    ELSE LET a == CHOOSE i \in 1..Len(s) :
                      s[i] \notin Blank /\ \A j \in 1..(i - 1) : s[j] \in Blank
             b == CHOOSE i \in 1..Len(s) :
                      s[i] \notin Blank /\ \A j \in (i + 1)..Len(s) : s[j] \in Blank
         IN  SubSeq(s, a, b)

\* `sub in s`
Contains(s, sub) ==
    \E i \in 1..(Len(s) - Len(sub) + 1) : SubSeq(s, i, i + Len(sub) - 1) = sub

\* s.startswith(p)
StartsWith(s, p) == Len(p) <= Len(s) /\ SubSeq(s, 1, Len(p)) = p

\* s.endswith(p)
EndsWith(s, p) == Len(p) <= Len(s) /\ SubSeq(s, Len(s) - Len(p) + 1, Len(s)) = p

\* the characters of s that satisfy none of the removed classes, in order
RECURSIVE RemoveChars(_, _)
RemoveChars(s, removed) ==
    IF s = <<>> THEN <<>>
    ELSE IF Head(s) \in removed
         THEN RemoveChars(Tail(s), removed)
         ELSE <<Head(s)>> \o RemoveChars(Tail(s), removed)

(***************************************************************************)
(* Numeric parser                                                          *)
(***************************************************************************)
\* number of consecutive digits of text starting at position i
RECURSIVE DigitRun(_, _)
DigitRun(text, i) ==
    IF i > Len(text) \/ text[i] \notin Digits THEN 0
    ELSE 1 + DigitRun(text, i + 1)

\* value of the digit string text[i..j]
RECURSIVE DigitsValue(_, _, _)
DigitsValue(text, i, j) ==
    IF j < i THEN 0
    ELSE 10 * DigitsValue(text, i, j - 1) + DigitVal(text[j])

\* a pattern that knows the dot only
DecimalMatchAtDotOnly(text, i) ==
    LET n == DigitRun(text, i)
    IN  /\ n \in 1..5
        /\ i + n <= Len(text)
        /\ text[i + n] = "."
        /\ DigitRun(text, i + n + 1) >= 1

\* start positions where (\d{1,5}[\.,]\d{1,2}) matches
DecimalMatchAt(text, i) ==
    LET n == DigitRun(text, i)
    IN  /\ n \in 1..5
        /\ i + n <= Len(text)
        /\ text[i + n] \in {".", ","}
        /\ DigitRun(text, i + n + 1) >= 1

\* start positions where (\d{2,6}) matches
IntegerMatchAt(text, i) == DigitRun(text, i) >= 2

\* _extract_decimal of both services: the parsed amount in hundredths, or
\* PyNone.  re.search takes the leftmost match and each quantifier is greedy.
ExtractDecimal(text) ==
    IF \E i \in 1..Len(text) : DecimalMatchAt(text, i)
    THEN LET i == CHOOSE k \in 1..Len(text) :
                      DecimalMatchAt(text, k)
                      /\ \A j \in 1..(k - 1) : ~DecimalMatchAt(text, j)
             n == DigitRun(text, i)
             f == IF DigitRun(text, i + n + 1) >= 2 THEN 2 ELSE 1
             whole == DigitsValue(text, i, i + n - 1)
             frac  == DigitsValue(text, i + n + 1, i + n + f)
         IN  PyNum(100 * whole + (IF f = 1 THEN 10 * frac ELSE frac))
    ELSE IF \E i \in 1..Len(text) : IntegerMatchAt(text, i)
    THEN LET i == CHOOSE k \in 1..Len(text) :
                      IntegerMatchAt(text, k)
                      /\ \A j \in 1..(k - 1) : ~IntegerMatchAt(text, j)
             n == IF DigitRun(text, i) > 6 THEN 6 ELSE DigitRun(text, i)
         IN  PyNum(100 * DigitsValue(text, i, i + n - 1))
    ELSE PyNone

(***************************************************************************)
(* Authority filter                                                        *)
(***************************************************************************)
\* OFFICIAL_DOMAINS: normalized service key -> trusted domain suffixes
OFFICIAL_DOMAINS ==
    { [key  |-> <<"n", "e", "t", "f", "l", "i", "x">>,
       doms |-> { <<"n", "e", "t", "f", "l", "i", "x", ".", "c", "o", "m">> }],
      [key  |-> <<"s", "p", "o", "t", "i", "f", "y">>,
       doms |-> { <<"s", "p", "o", "t", "i", "f", "y", ".", "c", "o", "m">> }],
      [key  |-> <<"e", "x", "x", "e", "n">>,
       doms |-> { <<"e", "x", "x", "e", "n", ".", "c", "o", "m">> }],
      [key  |-> <<"d", "i", "s", "n", "e", "y", "p", "l", "u", "s">>,
       doms |-> { <<"d", "i", "s", "n", "e", "y", "p", "l", "u", "s", ".", "c", "o", "m">>,
                  <<"d", "i", "s", "n", "e", "y", "p", "l", "u", "s", ".", "c", "o", "m",
                    ".", "t", "r">> }],
      [key  |-> <<"a", "m", "a", "z", "o", "n", "p", "r", "i", "m", "e", "v", "i", "d",
                  "e", "o">>,
       doms |-> { <<"p", "r", "i", "m", "e", "v", "i", "d", "e", "o", ".", "c", "o", "m">>,
                  <<"a", "m", "a", "z", "o", "n", ".", "c", "o", "m">> }] }

\* self.official_domains.get(service_key): the registered suffixes, {} if none
RegisteredDomains(service_key) ==
    IF \E e \in OFFICIAL_DOMAINS : e.key = service_key
    THEN (CHOOSE e \in OFFICIAL_DOMAINS : e.key = service_key).doms
    ELSE {}

\* smart_price_service._normalize_service_key: drops blanks and '+', lower-cases
NormalizeServiceKey(name) ==
    Lower(RemoveChars(IF name.t = "str" THEN name.s ELSE <<>>, Blank \cup {"+"}))

\* ai_cron_service._normalize_service_key: drops blanks only, lower-cases
CronNormalizeServiceKey(name) ==
    Lower(RemoveChars(IF name.t = "str" THEN name.s ELSE <<>>, Blank))

\* `(v or "").lower()` raises AttributeError when v is truthy and not text
LowerRaises(v) == Truthy(v) /\ v.t # "str"

\* `(v or "").lower()` when it does not raise
OrEmptyLower(v) == IF Truthy(v) THEN Lower(v.s) ELSE <<>>

\* a filter that knows no registered domains and looks for the key only
KeepsResultByKey(r, service_key) ==
    LET link == OrEmptyLower(r.link)
        display_link == OrEmptyLower(r.displayLink)
    IN  /\ service_key # <<>>
        /\ \/ Contains(link, service_key)
           \/ Contains(display_link, service_key)
           \/ StartsWith(link, service_key \o <<".">>)
           \/ StartsWith(display_link, service_key \o <<".">>)

\* the test _filter_official_results applies to one result
KeepsResult(r, service_key) ==
    LET link == OrEmptyLower(r.link)
        display_link == OrEmptyLower(r.displayLink)
        official_domains == RegisteredDomains(service_key)
    IN  IF official_domains # {}
        THEN \E d \in official_domains :
                 Contains(link, d) \/ Contains(display_link, d)
        ELSE /\ service_key # <<>>
             /\ \/ Contains(link, service_key)
                \/ Contains(display_link, service_key)
                \/ StartsWith(link, service_key \o <<".">>)
                \/ StartsWith(display_link, service_key \o <<".">>)

\* SmartPriceService._filter_official_results raises on a result whose link
\* or displayLink is a truthy non-string
FilterOfficialRaises(results) ==
    \E i \in 1..Len(results) :
        LowerRaises(results[i].link) \/ LowerRaises(results[i].displayLink)

\* SmartPriceService._filter_official_results (when it does not raise)
FilterOfficialResults(results, service_key) ==
    SelectSeq(results, LAMBDA r : KeepsResult(r, service_key))

\* ai_cron_service._is_official_domain (when it does not raise)
IsOfficialDomain(display_link, service_key) ==
    LET dl == OrEmptyLower(display_link)
    IN  \/ Contains(dl, service_key)
        \/ StartsWith(dl, service_key \o <<".">>)
        \/ EndsWith(dl, <<".">> \o service_key \o <<".", "c", "o", "m">>)

\* the list comprehension of _find_price_with_smart_rag raises on a result
\* whose displayLink is a truthy non-string
CronFilterRaises(results) ==
    \E i \in 1..Len(results) : LowerRaises(results[i].displayLink)

\* official_results of _find_price_with_smart_rag (when it does not raise)
CronOfficialResults(results, service_key) ==
    SelectSeq(results, LAMBDA r : IsOfficialDomain(r.displayLink, service_key))

(***************************************************************************)
(* Context aggregation                                                     *)
(***************************************************************************)
\* sep.join(parts)
RECURSIVE Join(_, _)
Join(parts, sep) ==
    IF parts = <<>> THEN <<>>
    ELSE IF Len(parts) = 1 THEN parts[1]
    ELSE parts[1] \o sep \o Join(Tail(parts), sep)

\* "\n".join(snippets) raises TypeError when a snippet is not text
ContextRaises(official) ==
    \E i \in 1..Len(official) : official[i].snippet.t # "str"

\* context_text of find_price: the snippets, one per line
ContextText(official) ==
    Join([i \in 1..Len(official) |-> official[i].snippet.s], <<"\n">>)

\* a value as an f-string prints it
Formatted(v) ==
    CASE v.t = "str"  -> v.s
      [] v.t = "None" -> <<"N", "o", "n", "e">>
      [] OTHER        -> <<"?">>

\* one entry of context_parts (line 93 of ai_cron_service)
CronContextPart(r) ==
    <<"T", "i", "t", "l", "e", ":", " ">> \o Formatted(r.title)
    \o <<"\n", "S", "n", "i", "p", "p", "e", "t", ":", " ">> \o Formatted(r.snippet)
    \o <<"\n", "L", "i", "n", "k", ":", " ">> \o Formatted(r.link)

\* context of _find_price_with_smart_rag: the entries, a blank line between
\* them (line 94)
CronContextText(official) ==
    Join([i \in 1..Len(official) |-> CronContextPart(official[i])], <<"\n", "\n">>)

\* a source that is the link of the first official result, empty or not
PrimarySourceOfFirst(official) ==
    IF official = <<>> THEN PyNone ELSE official[1].link

\* primary_source of find_price: the first truthy link of the official results
PrimarySource(official) ==
    IF \E i \in 1..Len(official) : Truthy(official[i].link)
    THEN official[CHOOSE i \in 1..Len(official) :
                      Truthy(official[i].link)
                      /\ \A j \in 1..(i - 1) : ~Truthy(official[j].link)].link
    ELSE PyNone

(***************************************************************************)
(* Backend clients                                                         *)
(***************************************************************************)
\* a key the JSON object does not have
Missing == [t |-> "missing"]

\* d.get(key, default)
DictGet(v, default) == IF v.t = "missing" THEN default ELSE v

\* min(a, b)
Min(a, b) == IF a < b THEN a ELSE b

\* a client that hands the requested count on as it is
NumParamUncapped(num_results) == num_results

\* the "num" parameter search_google sends (line 54)
NumParam(num_results) == Min(num_results, 10)

\* the dictionary search_google builds from one item of the payload
\* (lines 72-77)
SearchResult(item) ==
    [title |-> DictGet(item.title, PyStr(<<>>)),
     snippet |-> DictGet(item.snippet, PyStr(<<>>)),
     link |-> DictGet(item.link, PyStr(<<>>)),
     displayLink |-> DictGet(item.displayLink, PyStr(<<>>))]

\* a statement inside the try block of search_google raises: the request
\* itself (timeout, connection error), raise_for_status on a status that is
\* not 2xx, response.json() on a body that is not JSON, `"items" in data` on
\* a null document, or item.get on an item that is not an object
SearchRaises(response) ==
    \/ response.error # "none"
    \/ response.status \notin 200..299
    \/ response.data.t \in {"bad", "None"}
    \/ /\ response.data.has_items
       /\ \E i \in 1..Len(response.data.items) : response.data.items[i].t # "dict"

\* a client that reads the body whatever the status
SearchGoogleAnyStatus(configured, response) ==
    IF ~configured THEN <<>>
    ELSE IF SearchRaises([response EXCEPT !.status = 200]) THEN <<>>
    ELSE IF ~response.data.has_items THEN <<>>
    ELSE [i \in 1..Len(response.data.items) |-> SearchResult(response.data.items[i])]

\* GoogleSearchService.search_google for a query that is not blank: the empty
\* list without a key or when a statement of the try block raises, the
\* dictionaries built from the items of the payload otherwise
SearchGoogle(configured, response) ==
    IF ~configured THEN <<>>
    ELSE IF SearchRaises(response) THEN <<>>
    ELSE IF ~response.data.has_items THEN <<>>
    ELSE [i \in 1..Len(response.data.items) |-> SearchResult(response.data.items[i])]

\* search_google ends in failure: no key, or one of its except clauses ran
SearchFailed(configured, response) == ~configured \/ SearchRaises(response)

\* a client that hands the error message on as the answer
AskGeminiErrorText(resp) ==
    IF resp.t # "str" THEN PyStr(<<"E", "r", "r", "o", "r", " ", "5", "0", "0">>)
    ELSE IF resp.s = <<>> THEN PyNone
    ELSE PyStr(Strip(resp.s))

\* GeminiService.ask_gemini / ask_gemini_raw: None on failure or on an empty
\* text, the stripped text otherwise
AskGemini(resp) ==
    IF resp.t # "str" \/ resp.s = <<>> THEN PyNone ELSE PyStr(Strip(resp.s))

\* how the extraction call ended: "failed" when the backend gave no text
\* (the call raised, or the answer has no readable text), "blank" for a text
\* that is empty or only blanks, "text" otherwise
ExtractionOutcome(resp) ==
    IF resp.t # "str" THEN "failed"
    ELSE IF Strip(resp.s) = <<>> THEN "blank"
    ELSE "text"

(***************************************************************************)
(* Reconciliation                                                          *)
(***************************************************************************)
\* Decimal(str(v)) raises InvalidOperation unless str(v) is a decimal
\* literal; of the values the model stores only numbers are
DecimalRaises(v) == v.t # "num"

\* Decimal(str(v)) in hundredths
DecimalOf(v) == v.c

\* an alert only for a price that went up
CalcStatusBodyHikeOnly(subscription) ==
    LET plans == subscription.service_plans
    IN  IF ~Truthy(plans) THEN "none"
        ELSE IF plans.t # "row" THEN "raise"
        ELSE IF plans.row.cached_price.t = "None" THEN "none"
        ELSE IF subscription.amount.t # "num" THEN "raise"
        ELSE IF plans.row.cached_price.t # "num" THEN "raise"
        ELSE IF plans.row.cached_price.c > 0
                /\ subscription.amount.c < plans.row.cached_price.c
             THEN "update_required"
             ELSE "none"

\* the body of the try block of _calculate_price_alert_status: the status,
\* or "raise" where a statement of the block raises.  A row selected with "*"
\* always has its amount key, so the default of .get("amount", 0) is not used.
CalcStatusBody(subscription) ==
    LET plans == subscription.service_plans
    IN  IF ~Truthy(plans) THEN "none"
        ELSE IF plans.t # "row" THEN "raise"
        ELSE IF plans.row.cached_price.t = "None" THEN "none"
        ELSE IF DecimalRaises(subscription.amount) THEN "raise"
        ELSE IF DecimalRaises(plans.row.cached_price) THEN "raise"
        ELSE IF DecimalOf(plans.row.cached_price) > 0
                /\ DecimalOf(subscription.amount) # DecimalOf(plans.row.cached_price)
             THEN "update_required"
             ELSE "none"

\* the computation without its except clause
CalculatePriceAlertStatusUnguarded(subscription) == CalcStatusBody(subscription)

\* SubscriptionService._calculate_price_alert_status: the except clause
\* turns every exception of the body into "none"
CalculatePriceAlertStatus(subscription) ==
    IF CalcStatusBody(subscription) = "raise"
    THEN "none"
    ELSE CalcStatusBody(subscription)

(***************************************************************************)
(* Bounds and inputs                                                       *)
(***************************************************************************)
\* rows of the service_plans table
NumPlans == 5

\* rows of the subscriptions table
NumSubs == 2

\* the services table: id, name, display_name
Services ==
    << [id |-> 1, name |-> PyStr(<<"N", "e", "t", "f", "l", "i", "x">>),
        display_name |-> PyStr(<<"N", "e", "t", "f", "l", "i", "x">>)],
       [id |-> 2, name |-> PyStr(<<>>),
        display_name |-> PyStr(<<"G", "a", "i", "n">>)],
       [id |-> 3, name |-> PyStr(<<>>), display_name |-> PyNone] >>

\* seven kinds of service_plans rows; row i of the table is of kind
\* ((i - 1) % 7) + 1
PlanKinds ==
    << [service_id |-> 1, plan_name |-> PyStr(<<"S", "t", "a", "n", "d", "a", "r", "t">>),
        cached_price |-> PyNum(14999), currency |-> "USD", last_updated_ai |-> 0],
       [service_id |-> 9, plan_name |-> PyStr(<<"P", "r", "e", "m", "i", "u", "m">>),
        cached_price |-> PyNum(9900), currency |-> "TRY", last_updated_ai |-> 0],
       [service_id |-> 2, plan_name |-> PyStr(<<"P", "r", "e", "m", "i", "u", "m">>),
        cached_price |-> PyNone, currency |-> "TRY", last_updated_ai |-> 0],
       \* service_id 0: the plan has no service
       [service_id |-> 0, plan_name |-> PyStr(<<"S", "t", "a", "n", "d", "a", "r", "t">>),
        cached_price |-> PyNone, currency |-> "TRY", last_updated_ai |-> 0],
       [service_id |-> 1, plan_name |-> PyStr(<<" ">>),
        cached_price |-> PyNum(4999), currency |-> "TRY", last_updated_ai |-> 0],
       [service_id |-> 3, plan_name |-> PyStr(<<"S", "t", "a", "n", "d", "a", "r", "t">>),
        cached_price |-> PyNum(2500), currency |-> "TRY", last_updated_ai |-> 0],
       [service_id |-> 1, plan_name |-> PyNone,
        cached_price |-> PyNum(2500), currency |-> "TRY", last_updated_ai |-> 0] >>

PlanRow(i) ==
    LET k == PlanKinds[((i - 1) % Len(PlanKinds)) + 1]
    IN  [id |-> i, service_id |-> k.service_id, plan_name |-> k.plan_name,
         cached_price |-> k.cached_price, currency |-> k.currency,
         last_updated_ai |-> k.last_updated_ai]

\* the table holds NumPlans rows of consecutive kinds, starting after offset
PlanOffsets == {0, 5}

InitialPlans(offset) ==
    [i \in 1..NumPlans |-> [PlanRow(i + offset) EXCEPT !.id = i]]

\* search results as search_google hands them on
ResNetflix ==
    [title |-> PyStr(<<"t">>), snippet |-> PyStr(<<"a">>),
     link |-> PyStr(<<"h", "t", "t", "p", "s", ":", "/", "/", "w", "w", "w", ".", "n", "e",
                      "t", "f", "l", "i", "x", ".", "c", "o", "m", "/", "t", "r">>),
     displayLink |-> PyStr(<<"w", "w", "w", ".", "N", "e", "t", "f", "l", "i", "x", ".",
                             "c", "o", "m">>)]
ResBlog ==
    [title |-> PyStr(<<"t">>), snippet |-> PyStr(<<"b">>),
     link |-> PyStr(<<"h", "t", "t", "p", "s", ":", "/", "/", "f", "i", "y", "a", "t", ".",
                      "b", "l", "o", "g", "/", "n", "e", "t", "f", "l", "i", "x">>),
     displayLink |-> PyStr(<<"f", "i", "y", "a", "t", ".", "b", "l", "o", "g">>)]
ResGain ==
    [title |-> PyStr(<<"t">>), snippet |-> PyStr(<<"c">>),
     link |-> PyStr(<<>>),
     displayLink |-> PyStr(<<"w", "w", "w", ".", "g", "a", "i", "n", ".", "t", "v">>)]
\* a result whose displayLink is not text (untrusted backend payload)
ResBad ==
    [title |-> PyStr(<<"t">>), snippet |-> PyStr(<<"d">>),
     link |-> PyStr(<<>>), displayLink |-> PyObj]

\* an item of the payload from which search_google builds the given result
Item(result) ==
    [t |-> "dict", title |-> result.title, snippet |-> result.snippet,
     link |-> result.link, displayLink |-> result.displayLink]

\* the JSON document of an answer: an object with or without "items"
JsonObject(has_items, items) ==
    [t |-> "dict", has_items |-> has_items, items |-> items]

\* what the request of search_google may end in: an exception of the HTTP
\* client, or a status and a body
HttpResponse(error, status, data) ==
    [error |-> error, status |-> status, data |-> data]

SearchResponses ==
    { HttpResponse("timeout", 0, PyNone),
      HttpResponse("connect", 0, PyNone),
      HttpResponse("none", 500, JsonObject(TRUE, <<Item(ResBlog), Item(ResNetflix)>>)),
      HttpResponse("none", 429, JsonObject(FALSE, <<>>)),
      \* a body that is not JSON, and the JSON document null
      HttpResponse("none", 200, [t |-> "bad"]),
      HttpResponse("none", 200, PyNone),
      \* an item that is not an object
      HttpResponse("none", 200, JsonObject(TRUE, <<Item(ResNetflix), PyObj>>)),
      HttpResponse("none", 200, JsonObject(FALSE, <<>>)),
      HttpResponse("none", 200, JsonObject(TRUE, <<>>)),
      HttpResponse("none", 200, JsonObject(TRUE, <<Item(ResBlog)>>)),
      HttpResponse("none", 200, JsonObject(TRUE, <<Item(ResBlog), Item(ResNetflix)>>)),
      \* an item without "link"
      HttpResponse("none", 201,
                   JsonObject(TRUE, <<[Item(ResGain) EXCEPT !.link = Missing],
                                      Item(ResBlog)>>)),
      HttpResponse("none", 200, JsonObject(TRUE, <<Item(ResBad)>>)) }

\* whether GOOGLE_SEARCH_API_KEY and GOOGLE_SEARCH_ENGINE_ID are set
Configured == BOOLEAN

\* what the extraction backend may answer: a failure, or a text
ExtractionResponses ==
    { PyNone,
      \* an answer whose text property raises ValueError (no candidate)
      [t |-> "blocked"],
      PyStr(<<>>),
      PyStr(<<" ">>),
      PyStr(<<"2", "2", "9", ".", "9", "9">>),
      PyStr(<<" ", "2", "2", "9", ",", "9", "9", "\n">>),
      PyStr(<<"1", "9", "9">>),
      PyStr(<<"0">>),
      PyStr(<<"0", ".", "0", "0">>),
      PyStr(<<"0", "0">>),
      PyStr(<<"y", "o", "k">>) }

(***************************************************************************)
(* State                                                                   *)
(***************************************************************************)
VARIABLES
    service_plans,   \* the service_plans table, a sequence of rows
    subscriptions,   \* the subscriptions table, a sequence of rows
    clock,           \* datetime.now(): strictly later at every reading
    batch,           \* the running update_all_plan_prices call
    fp,              \* the running find_price call
    resp,            \* what the last subscription handler returned
    backend,         \* what the two backends answer, where that is fixed
    past,            \* what earlier pipeline runs gave, where that is kept
    search,          \* the running search_google call of another caller
    suspended,       \* a second update_all_plan_prices call, while the first runs
    rate_limiter     \* the RateLimiter singleton and the time of datetime.utcnow()

vars ==
    <<service_plans, subscriptions, clock, batch, fp, resp, backend, past, search,
      suspended, rate_limiter>>

\* RateLimiter.__init__: requests per window, and the window in seconds
max_requests == 60
window == 60

\* the client addresses of the requests
Clients == {"10.0.0.1", "10.0.0.2"}

\* the latest time of datetime.utcnow(), in seconds, and the number of
\* requests the middleware handles in a run
MaxNow == 90
MaxHandled == 4

\* the limiter after construction: a defaultdict without entries; `admitted`
\* keeps the time of every request the limiter let through, `last` the
\* client and the outcome of the latest request, `handled` their number
RateLimiterInit ==
    [requests |-> [c \in Clients |-> <<>>],
     admitted |-> [c \in Clients |-> <<>>],
     now |-> 0,
     handled |-> 0,
     last |-> [client |-> "", status |-> 0]]

\* the backends answer each call as they like
AnyBackend == [t |-> "any"]

\* no earlier run is remembered
NoRun == [ran |-> FALSE, service_name |-> PyNone, plan_name |-> PyNone,
          result |-> [price |-> PyNone, confidence |-> ""]]
NoPast == [find_price |-> NoRun, batch_runs |-> 0,
           batch_item |-> <<>>, batch_writes |-> <<>>,
           reordered |-> FALSE, batch_pc |-> "idle",
           batch_summary |-> [processed |-> 0, updated |-> 0, skipped |-> 0],
           batch_plans |-> <<>>]

\* no search_google call has been made
SearchIdle ==
    [pc |-> "idle", configured |-> TRUE, query |-> PyNone, num_results |-> 0,
     sent |-> FALSE, q |-> <<>>, num |-> 0, results |-> <<>>]

\* the row of a table with the given id, or PyNone
RowById(table, id) ==
    IF \E i \in 1..Len(table) : table[i].id = id
    THEN [t |-> "row", row |-> table[CHOOSE i \in 1..Len(table) : table[i].id = id]]
    ELSE PyNone

\* `a or b`
PyOr(a, b) == IF Truthy(a) THEN a ELSE b

(***************************************************************************)
(* Batch scheduler: update_all_plan_prices                                 *)
(***************************************************************************)
BatchIdle ==
    [pc |-> "idle", plans |-> <<>>, idx |-> 0,
     processed |-> 0, updated |-> 0, skipped |-> 0,
     service_name |-> PyNone, plan_name |-> PyNone, results |-> <<>>,
     item |-> <<>>, searches |-> <<>>, extractions |-> <<>>, writes |-> <<>>,
     search_failed |-> FALSE, answer |-> "none", context |-> <<>>]

\* the current item ends skipped: skipped += 1; continue
ItemSkipped(b) ==
    [b EXCEPT !.pc = "loop", !.idx = b.idx + 1, !.skipped = b.skipped + 1,
              !.item[b.idx] = "skipped"]

\* the current item ends updated: updated += 1
ItemUpdated(b) ==
    [b EXCEPT !.pc = "loop", !.idx = b.idx + 1, !.updated = b.updated + 1,
              !.item[b.idx] = "updated"]

\* an exception leaves update_all_plan_prices: the call never returns a summary
BatchRaised(b) == [b EXCEPT !.pc = "raised"]

\* the locals of update_all_plan_prices once lines 18-33 have read the plans
\* and the services and zeroed the counters
BatchBegunOn(table) ==
    IF Len(table) = 0
    THEN [BatchIdle EXCEPT !.pc = "done"]
    ELSE [BatchIdle EXCEPT
            !.pc = "loop", !.plans = table, !.idx = 1,
            !.item = [i \in 1..Len(table) |-> "pending"],
            !.searches = [i \in 1..Len(table) |-> 0],
            !.extractions = [i \in 1..Len(table) |-> 0],
            !.writes = [i \in 1..Len(table) |-> 0]]

BatchBegun == BatchBegunOn(service_plans)

\* lines 18-33: read the plans and the services, zero the counters
BatchStart ==
    /\ batch.pc = "idle"
    /\ batch' = BatchBegun
    /\ UNCHANGED <<service_plans, subscriptions, clock, fp, resp, backend, past, search, suspended, rate_limiter>>

\* line 69 of _find_price_with_smart_rag: `not service_name or not plan_name`
CronInvalidInput(service_name, plan_name) ==
    ~Truthy(service_name) \/ ~Truthy(plan_name)

\* lines 35-45 and 69-76: the next plan, up to the search call
BatchItemBegin ==
    /\ batch.pc = "loop"
    /\ batch.idx <= Len(batch.plans)
    /\ LET plan == batch.plans[batch.idx]
           service_row == RowById(Services, plan.service_id)
           b1 == [batch EXCEPT !.processed = batch.processed + 1,
                               !.results = <<>>, !.context = <<>>,
                               !.search_failed = FALSE, !.answer = "none"]
       IN  IF ~Truthy(service_row)
           THEN batch' = ItemSkipped(b1)
           ELSE LET service_name == PyOr(service_row.row.name,
                                         service_row.row.display_name)
                    plan_name == plan.plan_name
                    b2 == [b1 EXCEPT !.service_name = service_name,
                                     !.plan_name = plan_name]
                IN  IF CronInvalidInput(service_name, plan_name)
                    THEN batch' = ItemSkipped(b2)
                    ELSE batch' = [b2 EXCEPT
                                     !.pc = "search",
                                     !.item[batch.idx] = "running",
                                     !.searches[batch.idx] = @ + 1]
    /\ UNCHANGED <<service_plans, subscriptions, clock, fp, resp, backend, past, search, suspended, rate_limiter>>

\* line 84 of _find_price_with_smart_rag: `if not official_results`
CronNoOfficialResults(official_results) == official_results = <<>>

\* lines 76-103: the search has answered with one of the given responses;
\* filter, build the context and call the extraction backend
BatchSearchReturnOf(configureds, responses) ==
    /\ batch.pc = "search"
    /\ \E configured \in configureds, sr \in responses :
         LET results == SearchGoogle(configured, sr)
             service_key == CronNormalizeServiceKey(batch.service_name)
             b1 == [batch EXCEPT !.results = results,
                                 !.search_failed = SearchFailed(configured, sr)]
         IN  IF results = <<>>
             THEN batch' = ItemSkipped(b1)
             ELSE IF CronFilterRaises(results)
             THEN batch' = BatchRaised(b1)
             ELSE IF CronNoOfficialResults(
                         CronOfficialResults(results, service_key))
             THEN batch' = ItemSkipped(b1)
             ELSE batch' = [b1 EXCEPT !.pc = "extract",
                                      !.context = CronContextText(
                                          CronOfficialResults(results, service_key)),
                                      !.extractions[batch.idx] = @ + 1]
    /\ UNCHANGED <<service_plans, subscriptions, clock, fp, resp, backend, past, search, suspended, rate_limiter>>

\* the search backend answers as it likes
BatchSearchReturn == BatchSearchReturnOf(Configured, SearchResponses)

\* an update that lost its .eq("id", ...) filter
UpdateEveryPlanRow(table, plan_id, price, now_iso) ==
    [i \in 1..Len(table) |->
        [table[i] EXCEPT !.cached_price = price,
                         !.currency = "TRY",
                         !.last_updated_ai = now_iso]]

\* the update of lines 53-57: cached price, currency and timestamp of the
\* one row whose id is plan_id
UpdatePlanRow(table, plan_id, price, now_iso) ==
    [i \in 1..Len(table) |->
        IF table[i].id = plan_id
        THEN [table[i] EXCEPT !.cached_price = price,
                              !.currency = "TRY",
                              !.last_updated_ai = now_iso]
        ELSE table[i]]

\* a pipeline that leaves alone a row an earlier run has priced
CronPriceOncePerRow(er) ==
    LET text == AskGemini(er)
    IN  IF batch.plans[batch.idx].last_updated_ai > 0 \/ ~Truthy(text)
        THEN PyNone
        ELSE ExtractDecimal(text.s)

\* price of _find_price_with_smart_rag once the extraction has answered
\* (lines 103-109)
CronPrice(er) ==
    LET text == AskGemini(er)
    IN  IF ~Truthy(text) THEN PyNone ELSE ExtractDecimal(text.s)

\* an update whose exception leaves the loop
WriteFailedPropagates(b) == BatchRaised(b)

\* lines 59-60: the except clause around the update counts the item skipped
WriteFailed(b) == ItemSkipped(b)

\* lines 103-109 and 46-60: the extraction has answered with one of the given
\* responses; parse, and write a price that is not None, the update ending
\* in one of the given ways
BatchExtractReturnWith(responses, write_oks) ==
    /\ batch.pc = "extract"
    /\ \E er \in responses, write_ok \in write_oks :
         LET price == CronPrice(er)
             b1 == [batch EXCEPT !.answer = ExtractionOutcome(er)]
         IN  IF price.t = "None"
             THEN /\ batch' = ItemSkipped(b1)
                  /\ UNCHANGED <<service_plans, clock>>
             ELSE /\ clock' = clock + 1
                  /\ IF write_ok
                     THEN /\ service_plans' =
                               UpdatePlanRow(service_plans,
                                             batch.plans[batch.idx].id,
                                             price, clock)
                          /\ batch' = ItemUpdated(
                               [b1 EXCEPT !.writes[batch.idx] = @ + 1])
                     ELSE /\ service_plans' = service_plans
                          /\ batch' = WriteFailed(
                               [b1 EXCEPT !.writes[batch.idx] = @ + 1])
    /\ UNCHANGED <<subscriptions, fp, resp, backend, past, search, suspended, rate_limiter>>

\* the update succeeds or fails as the store likes
BatchExtractReturnOf(responses) == BatchExtractReturnWith(responses, BOOLEAN)

\* the extraction backend answers as it likes
BatchExtractReturn == BatchExtractReturnOf(ExtractionResponses)

\* line 62: return the summary
BatchReturn ==
    /\ batch.pc = "loop"
    /\ batch.idx > Len(batch.plans)
    /\ batch' = [batch EXCEPT !.pc = "done"]
    /\ UNCHANGED <<service_plans, subscriptions, clock, fp, resp, backend, past, search, suspended, rate_limiter>>

\* the summary a finished run returned
Summary == [processed |-> batch.processed, updated |-> batch.updated,
            skipped |-> batch.skipped]

(***************************************************************************)
(* On-demand pipeline: SmartPriceService.find_price                        *)
(***************************************************************************)
\* arguments find_price is called with
ServiceNames ==
    { PyNone, PyStr(<<>>), PyStr(<<" ">>),
      PyStr(<<"N", "e", "t", "f", "l", "i", "x">>),
      PyStr(<<"G", "a", "i", "n">>) }

PlanNames ==
    { PyNone, PyStr(<<>>), PyStr(<<" ", " ">>),
      PyStr(<<"S", "t", "a", "n", "d", "a", "r", "t">>) }

NoResult == [price |-> PyNone, currency |-> "", source |-> PyNone, confidence |-> ""]

\* the dictionary the early returns of find_price build
LowResult(source) ==
    [price |-> PyNone, currency |-> "TRY", source |-> source, confidence |-> "low"]

FpIdle ==
    [pc |-> "idle", service_name |-> PyNone, plan_name |-> PyNone,
     results |-> <<>>, official |-> <<>>, source |-> PyNone, context |-> <<>>,
     searches |-> 0, extractions |-> 0, result |-> NoResult,
     search_failed |-> FALSE, answer |-> "none",
     raw_response |-> PyNone, price_decimal |-> PyNone]

\* a guard that forgot the plan name
InvalidInputServiceOnly(service_name, plan_name) == ~Truthy(service_name)

\* line 27 of find_price: `not service_name or not plan_name`
InvalidInput(service_name, plan_name) ==
    ~Truthy(service_name) \/ ~Truthy(plan_name)

\* lines 27-47: validate the names and call the search backend, for a request
\* with names of the given sets
FindPriceBegin(service_names, plan_names) ==
    /\ fp.pc \in {"idle", "returned", "raised"}
    /\ \E service_name \in service_names, plan_name \in plan_names :
         fp' = IF InvalidInput(service_name, plan_name)
               THEN [FpIdle EXCEPT !.pc = "returned",
                                   !.service_name = service_name,
                                   !.plan_name = plan_name,
                                   !.result = LowResult(PyNone)]
               ELSE [FpIdle EXCEPT !.pc = "search",
                                   !.service_name = service_name,
                                   !.plan_name = plan_name,
                                   !.searches = 1]

FindPriceCallOf(service_names, plan_names) ==
    /\ FindPriceBegin(service_names, plan_names)
    /\ UNCHANGED <<service_plans, subscriptions, clock, batch, resp, backend, past, search, suspended, rate_limiter>>

\* a request with any of the names
FindPriceCall == FindPriceCallOf(ServiceNames, PlanNames)

\* a request for the plan the store holds, or without a plan name
FindPriceCallStored ==
    FindPriceCallOf({PyStr(<<"N", "e", "t", "f", "l", "i", "x">>)},
                    {PyNone, PyStr(<<"S", "t", "a", "n", "d", "a", "r", "t">>)})

\* a pipeline that goes on without an authoritative result
NoOfficialResultsIgnored(official_results) == FALSE

\* line 67 of find_price: `if not official_results`
NoOfficialResults(official_results) == official_results = <<>>

\* a pipeline that searches a second time when the search has failed
FindPriceSearchReturnRetrying(configureds, responses) ==
    /\ fp.pc = "search"
    /\ \E configured \in configureds, sr \in responses :
         LET results == SearchGoogle(configured, sr)
             service_key == NormalizeServiceKey(fp.service_name)
             official == FilterOfficialResults(results, service_key)
             f1 == [fp EXCEPT !.results = results,
                              !.search_failed = SearchFailed(configured, sr)]
         IN  fp' =
               IF SearchFailed(configured, sr) /\ fp.searches < 2
               THEN [fp EXCEPT !.searches = @ + 1]
               ELSE IF results = <<>>
               THEN [f1 EXCEPT !.pc = "returned", !.result = LowResult(PyNone)]
               ELSE IF FilterOfficialRaises(results)
               THEN [f1 EXCEPT !.pc = "raised"]
               ELSE IF NoOfficialResults(official)
               THEN [f1 EXCEPT !.pc = "returned",
                               !.result = LowResult(PyNone)]
               ELSE IF ContextRaises(official)
               THEN [f1 EXCEPT !.pc = "raised",
                               !.official = official]
               ELSE [f1 EXCEPT !.pc = "extract",
                               !.official = official,
                               !.source = PrimarySource(official),
                               !.context = ContextText(official),
                               !.extractions = @ + 1]
    /\ UNCHANGED <<service_plans, subscriptions, clock, batch, resp, backend, past, search, suspended, rate_limiter>>

\* lines 49-105: the search has answered with one of the given responses;
\* filter, aggregate and call the extraction backend
FindPriceSearchReturnOf(configureds, responses) ==
    /\ fp.pc = "search"
    /\ \E configured \in configureds, sr \in responses :
         LET results == SearchGoogle(configured, sr)
             service_key == NormalizeServiceKey(fp.service_name)
             official == FilterOfficialResults(results, service_key)
             f1 == [fp EXCEPT !.results = results,
                              !.search_failed = SearchFailed(configured, sr)]
         IN  fp' =
               IF results = <<>>
               THEN [f1 EXCEPT !.pc = "returned", !.result = LowResult(PyNone)]
               ELSE IF FilterOfficialRaises(results)
               THEN [f1 EXCEPT !.pc = "raised"]
               ELSE IF NoOfficialResults(official)
               THEN [f1 EXCEPT !.pc = "returned",
                               !.result = LowResult(PyNone)]
               ELSE IF ContextRaises(official)
               THEN [f1 EXCEPT !.pc = "raised",
                               !.official = official]
               ELSE [f1 EXCEPT !.pc = "extract",
                               !.official = official,
                               !.source = PrimarySource(official),
                               !.context = ContextText(official),
                               !.extractions = @ + 1]
    /\ UNCHANGED <<service_plans, subscriptions, clock, batch, resp, backend, past, search, suspended, rate_limiter>>

\* the search backend answers as it likes
FindPriceSearchReturn == FindPriceSearchReturnOf(Configured, SearchResponses)

\* lines 119-123: the parsed amount of a response that is not empty
ParsedPrice(raw_response) ==
    LET raw_text == Strip(raw_response.s)
    IN  IF raw_text = <<"0">> THEN PyNum(0) ELSE ExtractDecimal(raw_text)

\* a classifier that only looks for a missing amount
ClassifyNoneOnly(price_decimal, source) ==
    IF price_decimal.t = "None"
    THEN [price |-> PyNone, currency |-> "TRY", source |-> source,
          confidence |-> "low"]
    ELSE [price |-> price_decimal, currency |-> "TRY", source |-> source,
          confidence |-> "high"]

\* lines 128-140: the confidence classifier and the returned dictionary
\* (float(price_decimal) keeps the amount)
Classify(price_decimal, source) ==
    IF price_decimal.t = "None" \/ price_decimal.c = 0
    THEN [price |-> PyNone, currency |-> "TRY", source |-> source,
          confidence |-> "low"]
    ELSE [price |-> price_decimal, currency |-> "TRY", source |-> source,
          confidence |-> "high"]

\* lines 107-140: the extraction has answered with one of the given
\* responses; parse and classify
FindPriceExtractReturnOf(responses) ==
    /\ fp.pc = "extract"
    /\ \E er \in responses :
         LET raw_response == AskGemini(er)
         IN  fp' = [fp EXCEPT
                      !.pc = "returned",
                      !.answer = ExtractionOutcome(er),
                      !.raw_response = raw_response,
                      !.price_decimal = IF ~Truthy(raw_response)
                                        THEN PyNone
                                        ELSE ParsedPrice(raw_response),
                      !.result = IF ~Truthy(raw_response)
                                 THEN LowResult(fp.source)
                                 ELSE Classify(ParsedPrice(raw_response), fp.source)]
    /\ UNCHANGED <<service_plans, subscriptions, clock, batch, resp, backend, past, search, suspended, rate_limiter>>

\* a pipeline that caches the price it found
FindPriceExtractReturnCaching ==
    /\ fp.pc = "extract"
    /\ \E er \in ExtractionResponses :
         LET raw_response == AskGemini(er)
             result == IF ~Truthy(raw_response)
                       THEN LowResult(fp.source)
                       ELSE Classify(ParsedPrice(raw_response), fp.source)
         IN  /\ fp' = [fp EXCEPT !.pc = "returned",
                                 !.answer = ExtractionOutcome(er),
                                 !.raw_response = raw_response,
                                 !.price_decimal = result.price,
                                 !.result = result]
             /\ service_plans' = IF result.confidence = "high"
                                 THEN UpdatePlanRow(service_plans, 1, result.price, clock)
                                 ELSE service_plans
    /\ UNCHANGED <<subscriptions, clock, batch, resp, backend, past, search, suspended, rate_limiter>>

\* the extraction backend answers as it likes
FindPriceExtractReturn == FindPriceExtractReturnOf(ExtractionResponses)

\* the "data" of the answer of POST /ai/smart-price for a result of find_price
SmartPriceData(result) ==
    [suggested_price |-> result.price, currency |-> result.currency,
     source |-> result.source, confidence |-> result.confidence]

\* lines 119-140 on their own: parse and classify the answer the extraction
\* client handed back
FindPriceParse ==
    /\ fp.pc = "answered"
    /\ fp' = [fp EXCEPT
                 !.pc = "returned",
                 !.price_decimal = ParsedPrice(fp.raw_response),
                 !.result = Classify(ParsedPrice(fp.raw_response), fp.source)]
    /\ UNCHANGED <<service_plans, subscriptions, clock, batch, resp, backend, past, search, suspended, rate_limiter>>

(***************************************************************************)
(* Subscription reads: SubscriptionService                                 *)
(***************************************************************************)
\* values the amount column of a stored subscription may hold: numbers,
\* null, and text that is not a decimal literal ("12,50")
StoredAmounts ==
    { PyNum(14999), PyNum(17999), PyNone, PyStr(<<"1", "2", ",", "5", "0">>) }

\* values the cached_price column of a stored plan may hold
StoredCachedPrices ==
    { PyNone, PyNum(0), PyNum(14999), PyNum(17999), PyStr(<<"y", "o", "k">>) }

\* amounts a client may set
NewAmounts == { PyNum(14999), PyNum(19900) }

\* how the store embeds service_plans(*) in a subscription row: the linked
\* row itself, or a list holding it
EmbedShapes == {"object", "list"}

\* an embed served from the plans as the running batch read them
EmbeddedPlanStale(sub, shape) ==
    LET linked == RowById(IF batch.plans # <<>> THEN batch.plans ELSE service_plans,
                          sub.service_plan_id)
    IN  IF shape = "object" THEN linked
        ELSE [t |-> "list",
              items |-> IF linked.t = "row" THEN <<linked.row>> ELSE <<>>]

\* the service_plans value of a row selected with "*, service_plans(*)"
EmbeddedPlan(sub, shape) ==
    LET linked == RowById(service_plans, sub.service_plan_id)
    IN  IF shape = "object" THEN linked
        ELSE [t |-> "list",
              items |-> IF linked.t = "row" THEN <<linked.row>> ELSE <<>>]

\* a row as select("*, service_plans(*)") returns it
SelectedRow(sub, shape) ==
    [id |-> sub.id, amount |-> sub.amount, service_plan_id |-> sub.service_plan_id,
     is_active |-> sub.is_active,
     service_plans |-> EmbeddedPlan(sub, shape)]

\* a selected row with its price_alert_status set (lines 98, 196, 277)
WithStatus(row) ==
    [id |-> row.id, amount |-> row.amount, service_plan_id |-> row.service_plan_id,
     is_active |-> row.is_active,
     service_plans |-> row.service_plans,
     price_alert_status |-> CalculatePriceAlertStatus(row)]

\* the handler's own except clause re-raises whatever its body raised
Response(op, subscription_id, rows) ==
    IF \E i \in 1..Len(rows) : rows[i].price_alert_status = "raise"
    THEN [op |-> op, id |-> subscription_id, raised |-> TRUE, rows |-> <<>>]
    ELSE [op |-> op, id |-> subscription_id, raised |-> FALSE, rows |-> rows]

NoResponse == [op |-> "none", id |-> 0, raised |-> FALSE, rows |-> <<>>]

\* get_subscriptions: every row of the user with its status (the summary
\* that follows guards its own amount conversion, lines 145-149)
GetSubscriptions ==
    /\ \E shape \in EmbedShapes :
         resp' = Response("list", 0,
                    [i \in 1..Len(subscriptions) |->
                        WithStatus(SelectedRow(subscriptions[i], shape))])
    /\ UNCHANGED <<service_plans, subscriptions, clock, batch, fp, backend, past, search, suspended, rate_limiter>>

\* the rows a select by id returns, each with its status
SelectById(table, subscription_id, shape) ==
    LET found == SelectSeq(table, LAMBDA sub : sub.id = subscription_id)
    IN  [i \in 1..Len(found) |-> WithStatus(SelectedRow(found[i], shape))]

\* get_subscription_by_id: the row with its status, or None
GetSubscriptionById ==
    /\ \E subscription_id \in 1..(NumSubs + 1), shape \in EmbedShapes :
         resp' = Response("get", subscription_id,
                          SelectById(subscriptions, subscription_id, shape))
    /\ UNCHANGED <<service_plans, subscriptions, clock, batch, fp, backend, past, search, suspended, rate_limiter>>

\* update_subscription with a new amount: write it, select the row again
\* and return it with its status
UpdateSubscription ==
    /\ \E subscription_id \in 1..(NumSubs + 1), amount \in NewAmounts,
          shape \in EmbedShapes :
         LET updated == [i \in 1..Len(subscriptions) |->
                            IF subscriptions[i].id = subscription_id
                            THEN [subscriptions[i] EXCEPT !.amount = amount]
                            ELSE subscriptions[i]]
         IN  /\ subscriptions' = updated
             /\ resp' = Response("update", subscription_id,
                               SelectById(updated, subscription_id, shape))
    /\ UNCHANGED <<service_plans, clock, batch, fp, backend, past, search, suspended, rate_limiter>>

\* create_subscription: insert the row, read it back by its id and return it
\* with its status (the request carries an amount >= 0.01 and, optionally,
\* the id of a plan; 0 stands for no plan).  The user creates a subscription
\* while holding none.
CreateSubscription ==
    /\ subscriptions = <<>>
    /\ \E amount \in NewAmounts, service_plan_id \in {0, 1}, shape \in EmbedShapes :
         LET inserted_id == CHOOSE id \in 1..NumSubs :
                                \A i \in 1..Len(subscriptions) : subscriptions[i].id # id
             inserted == Append(subscriptions,
                                [id |-> inserted_id, amount |-> amount,
                                 service_plan_id |-> service_plan_id,
                                 is_active |-> TRUE])
         IN  /\ subscriptions' = inserted
             /\ resp' = Response("create", inserted_id,
                                 SelectById(inserted, inserted_id, shape))
    /\ UNCHANGED <<service_plans, clock, batch, fp, backend, past, search, suspended, rate_limiter>>

\* delete_subscription: delete the rows with the id, return True
DeleteSubscription ==
    /\ \E subscription_id \in 1..(NumSubs + 1) :
         /\ subscriptions' = SelectSeq(subscriptions,
                                       LAMBDA sub : sub.id # subscription_id)
         /\ resp' = [op |-> "delete", id |-> subscription_id, raised |-> FALSE,
                     rows |-> <<>>]
    /\ UNCHANGED <<service_plans, clock, batch, fp, backend, past, search, suspended, rate_limiter>>

\* toggle_subscription: update_subscription with {"is_active": is_active}
ToggleSubscription ==
    /\ \E subscription_id \in 1..(NumSubs + 1), is_active \in BOOLEAN,
          shape \in EmbedShapes :
         LET updated == [i \in 1..Len(subscriptions) |->
                            IF subscriptions[i].id = subscription_id
                            THEN [subscriptions[i] EXCEPT !.is_active = is_active]
                            ELSE subscriptions[i]]
         IN  /\ subscriptions' = updated
             /\ resp' = Response("toggle", subscription_id,
                                 SelectById(updated, subscription_id, shape))
    /\ UNCHANGED <<service_plans, clock, batch, fp, backend, past, search, suspended, rate_limiter>>

(***************************************************************************)
(* Specifications                                                          *)
(***************************************************************************)
\* the batch scheduler over the plans table (NumPlans rows, or none), and
\* on-demand price requests
Init ==
    /\ \/ \E offset \in PlanOffsets : service_plans = InitialPlans(offset)
       \/ service_plans = <<>>
    /\ subscriptions = <<>>
    /\ clock = 1
    /\ batch = BatchIdle
    /\ fp = FpIdle
    /\ resp = NoResponse
    /\ backend = AnyBackend
    /\ past = NoPast
    /\ search = SearchIdle
    /\ suspended = BatchIdle
    /\ rate_limiter = RateLimiterInit

Next ==
    \/ BatchStart
    \/ BatchItemBegin
    \/ BatchSearchReturn
    \/ BatchExtractReturn
    \/ BatchReturn
    \/ FindPriceCall
    \/ FindPriceSearchReturn
    \/ FindPriceExtractReturn

Spec == Init /\ [][Next]_vars

\* the batch scheduler alone
NextBatch ==
    \/ BatchStart
    \/ BatchItemBegin
    \/ BatchSearchReturn
    \/ BatchExtractReturn
    \/ BatchReturn

SpecBatch == Init /\ [][NextBatch]_vars

\* on-demand price requests alone
NextPrice ==
    \/ FindPriceCall
    \/ FindPriceSearchReturn
    \/ FindPriceExtractReturn

SpecPrice == Init /\ [][NextPrice]_vars

\* longest text of the extraction backend the parser is run on
MaxTextLen == 4

\* the characters of those texts
TextAlphabet == {"0", "1", "9", ".", ",", "a", " "}

\* longer answers: the prices of the examples, numbers at the limits of the
\* two patterns
LongTexts ==
    { <<"2", "2", "9", ".", "9", "9">>,
      <<"2", "2", "9", ",", "9", "9">>,
      <<"f", "i", "y", "a", "t", " ", "b", "u", "l", "u", "n", "a", "m", "a", "d", "i">>,
      <<"1", "2", "3", "4", "5", "6", "7", ".", "8", "9">>,
      <<"1", "2", "3", "4", "5", "6", ".", "5">>,
      <<"1", "2", "3", "4", "5", "6", "7">>,
      <<"1", "2", "3", "4", "5", "6", " ", "1", ".", "5", "0", "7">>,
      <<"1", "2", "3", "4", "5", " ", "1", "a", "1", "2", ",", "3", "4", "5">>,
      <<"a", " ", "1", "9", "9", " ", "T", "L", " ", "2", "4", "9", ",", "9", "0">> }

\* the texts the extraction backend answers with
ParserTexts ==
    LongTexts \cup UNION {[1..n -> TextAlphabet] : n \in 1..MaxTextLen}

\* find_price holding the answer of the extraction client to a request for
\* Netflix / Standart (raw_response of line 105, a text that is not empty)
InitParse ==
    /\ service_plans = <<>>
    /\ subscriptions = <<>>
    /\ clock = 1
    /\ batch = BatchIdle
    /\ resp = NoResponse
    /\ backend = AnyBackend
    /\ past = NoPast
    /\ search = SearchIdle
    /\ suspended = BatchIdle
    /\ rate_limiter = RateLimiterInit
    /\ \E text \in ParserTexts :
          /\ Truthy(AskGemini(PyStr(text)))
          /\ fp = [FpIdle EXCEPT
                     !.pc = "answered",
                     !.service_name = PyStr(<<"N", "e", "t", "f", "l", "i", "x">>),
                     !.plan_name = PyStr(<<"S", "t", "a", "n", "d", "a", "r", "t">>),
                     !.results = <<ResNetflix>>,
                     !.official = <<ResNetflix>>,
                     !.source = PrimarySource(<<ResNetflix>>),
                     !.context = ContextText(<<ResNetflix>>),
                     !.searches = 1,
                     !.extractions = 1,
                     !.answer = ExtractionOutcome(PyStr(text)),
                     !.raw_response = AskGemini(PyStr(text))]

NextParse == FindPriceParse

SpecParse == InitParse /\ [][NextParse]_vars

\* subscription reads and updates over stored rows of every kind
ReconPlans(cached_price) ==
    << [id |-> 1, service_id |-> 1,
        plan_name |-> PyStr(<<"S", "t", "a", "n", "d", "a", "r", "t">>),
        cached_price |-> cached_price, currency |-> "TRY", last_updated_ai |-> 0] >>

InitRecon ==
    /\ \E cached_price \in StoredCachedPrices :
         service_plans = ReconPlans(cached_price)
    /\ \E amounts \in [1..NumSubs -> StoredAmounts], links \in [1..NumSubs -> {0, 1}] :
         subscriptions = [i \in 1..NumSubs |->
                             [id |-> i, amount |-> amounts[i],
                              service_plan_id |-> links[i], is_active |-> TRUE]]
    /\ clock = 1
    /\ batch = BatchIdle
    /\ fp = FpIdle
    /\ resp = NoResponse
    /\ backend = AnyBackend
    /\ past = NoPast
    /\ search = SearchIdle
    /\ suspended = BatchIdle
    /\ rate_limiter = RateLimiterInit

NextRecon ==
    \/ GetSubscriptions
    \/ GetSubscriptionById
    \/ UpdateSubscription

SpecRecon == InitRecon /\ [][NextRecon]_vars

\* the batch scheduler, on-demand price requests and the subscription
\* handlers over one plan and the subscriptions of one user
InitAll ==
    /\ service_plans = ReconPlans(PyNum(14999))
    /\ subscriptions = << [id |-> 1, amount |-> PyNum(14999),
                           service_plan_id |-> 1, is_active |-> TRUE] >>
    /\ clock = 1
    /\ batch = BatchIdle
    /\ fp = FpIdle
    /\ resp = NoResponse
    /\ backend = AnyBackend
    /\ past = NoPast
    /\ search = SearchIdle
    /\ suspended = BatchIdle
    /\ rate_limiter = RateLimiterInit

NextAll ==
    \/ BatchStart
    \/ BatchItemBegin
    \/ BatchSearchReturn
    \/ BatchExtractReturn
    \/ BatchReturn
    \/ FindPriceCallStored
    \/ FindPriceSearchReturn
    \/ FindPriceExtractReturn
    \/ GetSubscriptions
    \/ GetSubscriptionById
    \/ CreateSubscription
    \/ UpdateSubscription
    \/ ToggleSubscription
    \/ DeleteSubscription

SpecAll == InitAll /\ [][NextAll]_vars

\* the batch scheduler and the subscription handlers
NextStore ==
    \/ BatchStart
    \/ BatchItemBegin
    \/ BatchSearchReturn
    \/ BatchExtractReturn
    \/ BatchReturn
    \/ GetSubscriptions
    \/ GetSubscriptionById
    \/ CreateSubscription
    \/ UpdateSubscription
    \/ ToggleSubscription
    \/ DeleteSubscription

SpecStore == InitAll /\ [][NextStore]_vars

(***************************************************************************)
(* Repeated runs against an unchanged backend                              *)
(***************************************************************************)
\* runs of the batch scheduler
MaxRuns == 2

\* a backend that answers every search and every extraction the same way
Backends ==
    { [t |-> "fixed", configured |-> configured, search |-> sr, extraction |-> er] :
        configured \in Configured, sr \in SearchResponses,
        er \in ExtractionResponses }

InitRerun ==
    /\ service_plans = InitialPlans(0)
    /\ subscriptions = <<>>
    /\ clock = 1
    /\ batch = BatchIdle
    /\ fp = FpIdle
    /\ resp = NoResponse
    /\ backend \in Backends
    /\ past = NoPast
    /\ search = SearchIdle
    /\ suspended = BatchIdle
    /\ rate_limiter = RateLimiterInit

\* the scheduler of main.py lines 330-341 starts update_all_plan_prices
\* again; the items of the run that ended are remembered
BatchStartAgain ==
    /\ batch.pc \in {"done", "raised"}
    /\ past.batch_runs + 1 < MaxRuns
    /\ batch' = BatchBegun
    /\ past' = [past EXCEPT !.batch_runs = @ + 1,
                            !.batch_item = batch.item,
                            !.batch_writes = batch.writes]
    /\ UNCHANGED <<service_plans, subscriptions, clock, fp, resp, backend, search, suspended, rate_limiter>>

\* find_price is called again; the names and the result of the call that
\* returned are remembered
FindPriceCallAgain ==
    /\ FindPriceBegin({PyStr(<<"N", "e", "t", "f", "l", "i", "x">>)},
                      {PyNone, PyStr(<<"S", "t", "a", "n", "d", "a", "r", "t">>)})
    /\ past' = IF fp.pc = "returned"
               THEN [past EXCEPT !.find_price =
                       [ran |-> TRUE, service_name |-> fp.service_name,
                        plan_name |-> fp.plan_name,
                        result |-> [price |-> fp.result.price,
                                    confidence |-> fp.result.confidence]]]
               ELSE past
    /\ UNCHANGED <<service_plans, subscriptions, clock, batch, resp, backend, search, suspended, rate_limiter>>

BatchSearchReturnFixed == BatchSearchReturnOf({backend.configured}, {backend.search})
BatchExtractReturnFixed == BatchExtractReturnOf({backend.extraction})
FindPriceSearchReturnFixed ==
    FindPriceSearchReturnOf({backend.configured}, {backend.search})
FindPriceExtractReturnFixed == FindPriceExtractReturnOf({backend.extraction})

NextRerun ==
    \/ BatchStart
    \/ BatchStartAgain
    \/ BatchItemBegin
    \/ BatchSearchReturnFixed
    \/ BatchExtractReturnFixed
    \/ BatchReturn
    \/ FindPriceCallAgain
    \/ FindPriceSearchReturnFixed
    \/ FindPriceExtractReturnFixed

SpecRerun == InitRerun /\ [][NextRerun]_vars

(***************************************************************************)
(* The retrieval client called on its own                                  *)
(***************************************************************************)
\* largest result count a caller asks for
MaxNumResults == 12

\* num_results of the callers: 3, 5 and 6 in this repository, and counts on
\* both sides of the backend's ceiling
NumResults == (0 - 1)..MaxNumResults

Queries ==
    { PyNone, PyStr(<<>>), PyStr(<<" ">>),
      PyStr(<<" ", "n", "e", "t", "f", "l", "i", "x">>) }

\* lines 41-61: the two guards, then the parameters and the GET
SearchGoogleCall ==
    /\ search.pc \in {"idle", "returned"}
    /\ \E configured \in Configured, query \in Queries, num_results \in NumResults :
         LET call == [SearchIdle EXCEPT !.configured = configured,
                                        !.query = query,
                                        !.num_results = num_results]
         IN  search' =
               IF ~configured THEN [call EXCEPT !.pc = "returned"]
               ELSE IF ~Truthy(query) THEN [call EXCEPT !.pc = "returned"]
               ELSE IF Strip(query.s) = <<>> THEN [call EXCEPT !.pc = "returned"]
               ELSE [call EXCEPT !.pc = "sent", !.sent = TRUE,
                                 !.q = Strip(query.s),
                                 !.num = NumParam(num_results)]
    /\ UNCHANGED <<service_plans, subscriptions, clock, batch, fp, resp, backend, past, suspended, rate_limiter>>

\* lines 62-92: the backend has answered, or the request has failed
SearchGoogleReturn ==
    /\ search.pc = "sent"
    /\ \E sr \in SearchResponses :
         search' = [search EXCEPT !.pc = "returned",
                                  !.results = SearchGoogle(search.configured, sr)]
    /\ UNCHANGED <<service_plans, subscriptions, clock, batch, fp, resp, backend, past, suspended, rate_limiter>>

NextSearch ==
    \/ SearchGoogleCall
    \/ SearchGoogleReturn

SpecSearch == Init /\ [][NextSearch]_vars

(***************************************************************************)
(* The two pipelines side by side                                          *)
(***************************************************************************)
\* a result of a site that carries the service's name in its host name
ResMirror ==
    [title |-> PyStr(<<"t">>), snippet |-> PyStr(<<"e">>),
     link |-> PyStr(<<"h", "t", "t", "p", "s", ":", "/", "/", "n", "e", "t", "f", "l",
                      "i", "x", ".", "f", "i", "y", "a", "t", ".", "b", "l", "o", "g">>),
     displayLink |-> PyStr(<<"n", "e", "t", "f", "l", "i", "x", ".", "f", "i", "y", "a",
                             "t", ".", "b", "l", "o", "g">>)]

PairSearchResponses ==
    { HttpResponse("timeout", 0, PyNone),
      HttpResponse("none", 200, JsonObject(TRUE, <<Item(ResBlog)>>)),
      HttpResponse("none", 200, JsonObject(TRUE, <<Item(ResBlog), Item(ResNetflix)>>)),
      HttpResponse("none", 200, JsonObject(TRUE, <<Item(ResGain), Item(ResBlog)>>)),
      HttpResponse("none", 200, JsonObject(TRUE, <<Item(ResMirror)>>)) }

\* backends that answer the batch and find_price the same way
PairBackends ==
    { [t |-> "fixed", configured |-> TRUE, search |-> sr, extraction |-> er] :
        sr \in PairSearchResponses, er \in ExtractionResponses }

InitPair ==
    /\ service_plans = InitialPlans(0)
    /\ subscriptions = <<>>
    /\ clock = 1
    /\ batch = BatchIdle
    /\ fp = FpIdle
    /\ resp = NoResponse
    /\ backend \in PairBackends
    /\ past = NoPast
    /\ search = SearchIdle
    /\ suspended = BatchIdle
    /\ rate_limiter = RateLimiterInit

\* a request with the names the batch computes for the plans of the table
FindPriceCallPair ==
    FindPriceCallOf({PyStr(<<"N", "e", "t", "f", "l", "i", "x">>),
                     PyStr(<<"G", "a", "i", "n">>)},
                    {PyStr(<<"S", "t", "a", "n", "d", "a", "r", "t">>),
                     PyStr(<<"P", "r", "e", "m", "i", "u", "m">>),
                     PyStr(<<" ">>)})

NextPair ==
    \/ BatchStart
    \/ BatchItemBegin
    \/ BatchSearchReturnFixed
    \/ BatchExtractReturnFixed
    \/ BatchReturn
    \/ FindPriceCallPair
    \/ FindPriceSearchReturnFixed
    \/ FindPriceExtractReturnFixed

SpecPair == InitPair /\ [][NextPair]_vars

(***************************************************************************)
(* find_price over every search answer of the model                        *)
(***************************************************************************)
FindPriceSearchReturnWide ==
    FindPriceSearchReturnOf(Configured, SearchResponses \cup PairSearchResponses)

NextFilter ==
    \/ FindPriceCall
    \/ FindPriceSearchReturnWide
    \/ FindPriceExtractReturn

SpecFilter == Init /\ [][NextFilter]_vars

(***************************************************************************)
(* Two batch runs on one event loop                                        *)
(***************************************************************************)
\* a table of two plans of services that match
TwoPlans == << PlanRow(1), [PlanRow(3) EXCEPT !.id = 2] >>

InitTwoRuns ==
    /\ service_plans = TwoPlans
    /\ subscriptions = <<>>
    /\ clock = 1
    /\ batch = BatchIdle
    /\ fp = FpIdle
    /\ resp = NoResponse
    /\ backend = AnyBackend
    /\ past = NoPast
    /\ search = SearchIdle
    /\ suspended = BatchIdle
    /\ rate_limiter = RateLimiterInit

\* main.py lines 330-341: the run awaited at startup and a run the scheduler
\* starts share the event loop; the loop leaves a run only where it awaits
\* (the search of line 76, the extraction of line 103) or before it has
\* begun or after it has ended, and takes up the other
SwitchRun ==
    /\ batch.pc \in {"idle", "search", "extract", "done", "raised"}
    /\ batch # suspended
    /\ batch' = suspended
    /\ suspended' = batch
    /\ UNCHANGED <<service_plans, subscriptions, clock, fp, resp, backend, past, search,
                   rate_limiter>>

BatchSearchReturnPair == BatchSearchReturnOf({TRUE}, PairSearchResponses)

NextTwoRuns ==
    \/ BatchStart
    \/ BatchItemBegin
    \/ BatchSearchReturnPair
    \/ BatchExtractReturn
    \/ BatchReturn
    \/ SwitchRun

SpecTwoRuns == InitTwoRuns /\ [][NextTwoRuns]_vars

(***************************************************************************)
(* The batch over two orders of one table                                  *)
(***************************************************************************)
\* the orders in which the select of line 18 may hand on the rows of a table
Orders(table) ==
    { [i \in 1..Len(table) |-> table[f[i]]] :
        f \in { g \in [1..Len(table) -> 1..Len(table)] :
                  \A a, b \in 1..Len(table) : g[a] = g[b] => a = b } }

PlanIds == { TwoPlans[i].id : i \in 1..Len(TwoPlans) }

OrderSearchResponses ==
    { HttpResponse("timeout", 0, PyNone),
      HttpResponse("none", 200, JsonObject(TRUE, <<Item(ResBlog), Item(ResNetflix)>>)),
      HttpResponse("none", 200, JsonObject(TRUE, <<Item(ResGain), Item(ResBlog)>>)),
      HttpResponse("none", 200, JsonObject(TRUE, <<Item(ResBad)>>)) }

OrderExtractionResponses ==
    { PyNone,
      PyStr(<<"2", "2", "9", ".", "9", "9">>),
      PyStr(<<"1", "9", "9">>) }

\* backends and a store whose answers depend on the plan only
ItemBackends ==
    { [t |-> "per_item", search |-> sr, extraction |-> er, write_ok |-> ok] :
        sr \in [PlanIds -> OrderSearchResponses],
        er \in [PlanIds -> OrderExtractionResponses],
        ok \in [PlanIds -> BOOLEAN] }

InitOrders ==
    /\ service_plans \in Orders(TwoPlans)
    /\ subscriptions = <<>>
    /\ clock = 1
    /\ batch = BatchIdle
    /\ fp = FpIdle
    /\ resp = NoResponse
    /\ backend \in ItemBackends
    /\ past = NoPast
    /\ search = SearchIdle
    /\ suspended = BatchIdle
    /\ rate_limiter = RateLimiterInit

\* the same run over another order: the run that ended is remembered with its
\* summary and the table it left, the table is put back to the rows it began
\* with, in any order, and update_all_plan_prices starts on it
BatchStartReordered ==
    /\ batch.pc \in {"done", "raised"}
    /\ ~past.reordered
    /\ \E table \in Orders(TwoPlans) :
         /\ service_plans' = table
         /\ batch' = BatchBegunOn(table)
    /\ past' = [past EXCEPT !.reordered = TRUE,
                            !.batch_pc = batch.pc,
                            !.batch_summary = Summary,
                            !.batch_plans = service_plans]
    /\ UNCHANGED <<subscriptions, clock, fp, resp, backend, search, suspended, rate_limiter>>

BatchSearchReturnItem ==
    BatchSearchReturnOf({TRUE}, {backend.search[batch.plans[batch.idx].id]})
BatchExtractReturnItem ==
    BatchExtractReturnWith({backend.extraction[batch.plans[batch.idx].id]},
                           {backend.write_ok[batch.plans[batch.idx].id]})

NextOrders ==
    \/ BatchStart
    \/ BatchStartReordered
    \/ BatchItemBegin
    \/ BatchSearchReturnItem
    \/ BatchExtractReturnItem
    \/ BatchReturn

SpecOrders == InitOrders /\ [][NextOrders]_vars

(***************************************************************************)
(* Subscriptions of a plan with and without a cached price                 *)
(***************************************************************************)
InitAlerts ==
    /\ \E cached_price \in {PyNone, PyNum(14999)} :
         service_plans = ReconPlans(cached_price)
    /\ subscriptions = << [id |-> 1, amount |-> PyNum(19900),
                           service_plan_id |-> 1, is_active |-> TRUE] >>
    /\ clock = 1
    /\ batch = BatchIdle
    /\ fp = FpIdle
    /\ resp = NoResponse
    /\ backend = AnyBackend
    /\ past = NoPast
    /\ search = SearchIdle
    /\ suspended = BatchIdle
    /\ rate_limiter = RateLimiterInit

SpecAlerts == InitAlerts /\ [][NextStore]_vars

(***************************************************************************)
(* Search answers with more than one authoritative result                  *)
(***************************************************************************)
\* a second result of the service's own site
ResNetflixHelp ==
    [title |-> PyStr(<<"h">>), snippet |-> PyStr(<<"f">>),
     link |-> PyStr(<<"h", "t", "t", "p", "s", ":", "/", "/", "h", "e", "l", "p", ".",
                      "n", "e", "t", "f", "l", "i", "x", ".", "c", "o", "m">>),
     displayLink |-> PyStr(<<"h", "e", "l", "p", ".", "n", "e", "t", "f", "l", "i", "x",
                             ".", "c", "o", "m">>)]

ContextSearchResponses ==
    { HttpResponse("none", 200, JsonObject(TRUE, <<Item(ResBlog)>>)),
      HttpResponse("none", 200, JsonObject(TRUE, <<Item(ResBlog), Item(ResNetflix)>>)),
      HttpResponse("none", 200,
                   JsonObject(TRUE, <<Item(ResNetflix), Item(ResBlog),
                                      Item(ResNetflixHelp)>>)),
      HttpResponse("none", 200,
                   JsonObject(TRUE, <<Item(ResNetflixHelp), Item(ResNetflix)>>)) }

BatchSearchReturnContext == BatchSearchReturnOf({TRUE}, ContextSearchResponses)
FindPriceSearchReturnContext == FindPriceSearchReturnOf({TRUE}, ContextSearchResponses)

NextContext ==
    \/ BatchStart
    \/ BatchItemBegin
    \/ BatchSearchReturnContext
    \/ BatchExtractReturn
    \/ BatchReturn
    \/ FindPriceCallStored
    \/ FindPriceSearchReturnContext
    \/ FindPriceExtractReturn

SpecContext == InitTwoRuns /\ [][NextContext]_vars

(***************************************************************************)
(* Search answers whose authoritative results lack a link                  *)
(***************************************************************************)
\* a result of the service's own site that came without a link
ResNetflixNoLink ==
    [title |-> PyStr(<<"n">>), snippet |-> PyStr(<<"g">>),
     link |-> PyStr(<<>>),
     displayLink |-> PyStr(<<"n", "e", "t", "f", "l", "i", "x", ".", "c", "o", "m">>)]

SourceSearchResponses ==
    { HttpResponse("none", 200,
                   JsonObject(TRUE, <<Item(ResNetflixNoLink), Item(ResBlog),
                                      Item(ResNetflix)>>)),
      HttpResponse("none", 200,
                   JsonObject(TRUE, <<Item(ResBlog), Item(ResNetflixHelp),
                                      Item(ResNetflix)>>)),
      HttpResponse("none", 200,
                   JsonObject(TRUE, <<[Item(ResNetflixNoLink) EXCEPT !.link = Missing]>>)),
      HttpResponse("none", 200,
                   JsonObject(TRUE, <<[Item(ResNetflixNoLink) EXCEPT !.link = PyNone],
                                      Item(ResNetflixHelp)>>)) }

FindPriceSearchReturnSource ==
    FindPriceSearchReturnOf(Configured, SearchResponses \cup SourceSearchResponses)

NextSource ==
    \/ FindPriceCall
    \/ FindPriceSearchReturnSource
    \/ FindPriceExtractReturn

SpecSource == Init /\ [][NextSource]_vars

(***************************************************************************)
(* Request rate limiting: RateLimiter and rate_limit_middleware            *)
(***************************************************************************)
\* a limiter that lets one request more through
LimitReachedAbove(recent) == Len(recent) > max_requests

\* line 30 of check_rate_limit: `len(self.requests[client_ip]) >= self.max_requests`
LimitReached(recent) == Len(recent) >= max_requests

\* RateLimiter.check_rate_limit for a request of the client: drop the times
\* at or before the cutoff, raise 429 at the limit, else record the time
CheckRateLimit(rl, client_ip) ==
    LET now == rl.now
        cutoff == now - window
        recent == SelectSeq(rl.requests[client_ip], LAMBDA req_time : req_time > cutoff)
    IN  IF LimitReached(recent)
        THEN [rl EXCEPT !.requests[client_ip] = recent,
                        !.last = [client |-> client_ip, status |-> 429]]
        ELSE [rl EXCEPT !.requests[client_ip] = Append(recent, now),
                        !.admitted[client_ip] = Append(@, now),
                        !.last = [client |-> client_ip, status |-> 200]]

\* rate_limit_middleware for one request: paths under /docs and /openapi go
\* on unchecked, every other path goes through check_rate_limit
RateLimitMiddleware ==
    /\ \E client_ip \in Clients, documentation \in BOOLEAN :
         /\ rate_limiter.handled < MaxHandled
         /\ rate_limiter' =
               IF documentation
               THEN [rate_limiter EXCEPT
                        !.handled = @ + 1,
                        !.last = [client |-> client_ip, status |-> 200]]
               ELSE [CheckRateLimit(rate_limiter, client_ip) EXCEPT
                        !.handled = @ + 1]
    /\ UNCHANGED <<service_plans, subscriptions, clock, batch, fp, resp, backend, past,
                   search, suspended>>

\* time passes: half a window
UtcNowAdvance ==
    /\ rate_limiter.now + (window \div 2) <= MaxNow
    /\ rate_limiter' = [rate_limiter EXCEPT !.now = @ + (window \div 2)]
    /\ UNCHANGED <<service_plans, subscriptions, clock, batch, fp, resp, backend, past,
                   search, suspended>>

NextLimiter ==
    \/ RateLimitMiddleware
    \/ UtcNowAdvance

\* n times the time t
Times(n, t) == [i \in 1..n |-> t]

\* what a client has sent before: the numbers of requests let through at
\* time 0 and half a window later, at most max_requests together
Histories == { <<0, 0>>, <<59, 0>>, <<60, 0>>, <<30, 29>>, <<1, 59>>, <<0, 60>> }

\* the limiter half a window after construction, each client with a history
RateLimiterAfter(history) ==
    LET times == [c \in Clients |->
                     Times(history[c][1], 0) \o Times(history[c][2], window \div 2)]
    IN  [RateLimiterInit EXCEPT !.requests = times,
                                !.admitted = times,
                                !.now = window \div 2]

InitLimiter ==
    /\ service_plans = InitialPlans(0)
    /\ subscriptions = <<>>
    /\ clock = 1
    /\ batch = BatchIdle
    /\ fp = FpIdle
    /\ resp = NoResponse
    /\ backend = AnyBackend
    /\ past = NoPast
    /\ search = SearchIdle
    /\ suspended = BatchIdle
    /\ rate_limiter \in {RateLimiterInit}
                         \cup {RateLimiterAfter(h) : h \in [Clients -> Histories]}

SpecLimiter == InitLimiter /\ [][NextLimiter]_vars

(***************************************************************************)
(* Backends that may never answer                                          *)
(***************************************************************************)
\* each backend answers its calls, or never answers any
LiveBackends ==
    { [t |-> "live", search_answers |-> sa, extraction_answers |-> ea] :
        sa \in BOOLEAN, ea \in BOOLEAN }

InitLive ==
    /\ service_plans = TwoPlans
    /\ subscriptions = <<>>
    /\ clock = 1
    /\ batch = BatchIdle
    /\ fp = FpIdle
    /\ resp = NoResponse
    /\ backend \in LiveBackends
    /\ past = NoPast
    /\ search = SearchIdle
    /\ suspended = BatchIdle
    /\ rate_limiter = RateLimiterInit

\* what the GET of search_google ends in: the client of line 63 is built
\* with timeout=30.0, so a backend that never answers ends in
\* httpx.TimeoutException
SearchAnswers ==
    IF backend.search_answers
    THEN PairSearchResponses
    ELSE { HttpResponse("timeout", 0, PyNone) }

BatchSearchReturnTimed == BatchSearchReturnOf({TRUE}, SearchAnswers)
FindPriceSearchReturnTimed == FindPriceSearchReturnOf({TRUE}, SearchAnswers)

\* self.model.generate_content(prompt) of line 160 is called with no timeout
\* and nothing around it sets one: it returns when the backend answers
BatchExtractReturnAnswered ==
    /\ backend.extraction_answers
    /\ BatchExtractReturn
FindPriceExtractReturnAnswered ==
    /\ backend.extraction_answers
    /\ FindPriceExtractReturn

NextLive ==
    \/ BatchStart
    \/ BatchItemBegin
    \/ BatchSearchReturnTimed
    \/ BatchExtractReturnAnswered
    \/ BatchReturn
    \/ FindPriceCallStored
    \/ FindPriceSearchReturnTimed
    \/ FindPriceExtractReturnAnswered

\* the event loop runs every call that can go on
SpecLive ==
    /\ InitLive
    /\ [][NextLive]_vars
    /\ WF_vars(BatchStart)
    /\ WF_vars(BatchItemBegin)
    /\ WF_vars(BatchSearchReturnTimed)
    /\ WF_vars(BatchExtractReturnAnswered)
    /\ WF_vars(BatchReturn)
    /\ WF_vars(FindPriceSearchReturnTimed)
    /\ WF_vars(FindPriceExtractReturnAnswered)

(***************************************************************************)
(* Properties                                                              *)
(***************************************************************************)
\* the rows a subscription handler returned
ReturnedRows == {resp.rows[i] : i \in 1..Len(resp.rows)}

\* a returned row whose stored data is as the schema promises: a numeric
\* amount, and no plan or a plan row whose cached price is null or a number
WellFormedRow(row) ==
    /\ row.amount.t = "num"
    /\ row.service_plans.t \in {"None", "row"}
    /\ row.service_plans.t = "row" =>
           row.service_plans.row.cached_price.t \in {"None", "num"}

\* the row has a linked plan whose cached price is present, positive and
\* different from the stored amount
CachedPriceDiffers(row) ==
    /\ row.service_plans.t = "row"
    /\ row.service_plans.row.cached_price.t = "num"
    /\ row.service_plans.row.cached_price.c > 0
    /\ row.service_plans.row.cached_price.c # row.amount.c

\* C1: every well-formed subscription a handler returns carries
\* update_required exactly when it has a linked plan whose cached price is
\* present, strictly positive and different from the stored amount (higher or
\* lower), and none in every other case.
C1_UpdateRequiredIffPriceDiffers ==
    \A row \in ReturnedRows :
        WellFormedRow(row) =>
            /\ row.price_alert_status \in {"none", "update_required"}
            /\ row.price_alert_status = "update_required" <=> CachedPriceDiffers(row)

\* a list holding an alert for a cached price below the stored amount next to
\* a subscription whose amount equals the cached price
C1_Witness ==
    /\ resp.op = "list"
    /\ \E row \in ReturnedRows :
          /\ WellFormedRow(row)
          /\ row.price_alert_status = "update_required"
          /\ row.service_plans.row.cached_price.c < row.amount.c
    /\ \E row \in ReturnedRows :
          /\ WellFormedRow(row)
          /\ row.service_plans.t = "row"
          /\ row.service_plans.row.cached_price.t = "num"
          /\ row.service_plans.row.cached_price.c = row.amount.c
          /\ row.price_alert_status = "none"

\* the stored subscription with the given id, as a set of rows
StoredWithId(subscription_id) ==
    {i \in 1..Len(subscriptions) : subscriptions[i].id = subscription_id}

\* C2: no read fails because of the status computation: the handler does not
\* raise, a list returns every stored subscription, a read by id returns the
\* stored subscription, and a row with malformed data carries none.
C2_ReadsNeverFail ==
    /\ ~resp.raised
    /\ resp.op = "list" =>
          /\ Len(resp.rows) = Len(subscriptions)
          /\ \A i \in 1..Len(resp.rows) : resp.rows[i].id = subscriptions[i].id
    /\ resp.op \in {"get", "update"} /\ StoredWithId(resp.id) # {} =>
          /\ Len(resp.rows) = 1
          /\ resp.rows[1].id = resp.id
    /\ \A row \in ReturnedRows :
          ~WellFormedRow(row) => row.price_alert_status = "none"

\* a read by id returned a subscription on which the computation raised
C2_Witness ==
    /\ resp.op = "get"
    /\ ~resp.raised
    /\ \E row \in ReturnedRows :
          /\ CalcStatusBody(row) = "raise"
          /\ row.amount.t # "num"
          /\ row.price_alert_status = "none"

\* C3: an exception raised while an item runs never leaves the batch run; the
\* item is counted as skipped and the run goes on to return a summary over
\* all plans.
C3_ItemExceptionStaysInItem ==
    /\ batch.pc # "raised"
    /\ batch.pc = "done" => batch.processed = Len(batch.plans)

\* rows the running batch has written: a write stamps the row with a reading
\* of the clock later than any stored timestamp
WrittenRows == {i \in 1..Len(batch.item) : service_plans[i] # batch.plans[i]}

\* C4: every cached price the batch scheduler writes is present and strictly
\* greater than zero, and no item is counted as updated for a zero amount.
C4_OnlyPositivePricesWritten ==
    \A i \in 1..Len(batch.item) :
        i \in WrittenRows \/ batch.item[i] = "updated" =>
            /\ service_plans[i].cached_price.t = "num"
            /\ service_plans[i].cached_price.c > 0

\* C5: the row of a plan whose item ended skipped holds the amount, currency
\* and timestamp it held when the run read the table, and no row that held a
\* cached price holds null.
C5_SkippedRowsUnchanged ==
    \A i \in 1..Len(batch.item) :
        /\ batch.item[i] = "skipped" => service_plans[i] = batch.plans[i]
        /\ batch.plans[i].cached_price.t # "None" =>
               service_plans[i].cached_price.t # "None"

\* a finished run in which a write failed for a plan with a cached price and
\* another plan was updated
C5_Witness ==
    /\ batch.pc = "done"
    /\ \E i \in 1..Len(batch.item) :
          /\ batch.item[i] = "skipped"
          /\ batch.writes[i] = 1
          /\ batch.plans[i].cached_price.t = "num"
    /\ \E i \in 1..Len(batch.item) :
          /\ batch.item[i] = "skipped"
          /\ batch.extractions[i] = 1
          /\ batch.writes[i] = 0
    /\ \E i \in 1..Len(batch.item) : batch.item[i] = "updated"

\* plans of the run whose row the run wrote with a usable (positive) price
UsableWrites ==
    {i \in WrittenRows : service_plans[i].cached_price.t = "num"
                         /\ service_plans[i].cached_price.c > 0}

\* C6: the summary of a run that returns has processed equal to the number of
\* plans read, updated equal to the number of plans written with a usable
\* price, skipped equal to the number of all other plans, and processed equal
\* to updated plus skipped.
C6_SummaryCounts ==
    batch.pc = "done" =>
        /\ batch.processed = Len(batch.plans)
        /\ batch.updated = Cardinality(UsableWrites)
        /\ batch.skipped = Len(batch.plans) - Cardinality(UsableWrites)
        /\ batch.processed = batch.updated + batch.skipped

\* items whose write was attempted and failed
FailedWrites ==
    {i \in 1..Len(batch.item) : batch.writes[i] = 1 /\ i \notin WrittenRows}

\* C7: an item whose write failed is counted skipped, not updated; the
\* failure does not leave the batch, which moves on to the next plan, and a
\* run that returns has processed every plan.
C7_FailedWriteIsSkipped ==
    /\ \A i \in FailedWrites :
          /\ batch.item[i] = "skipped"
          /\ batch.idx > i
    /\ batch.updated = Cardinality({i \in 1..Len(batch.item) : batch.item[i] = "updated"})
    /\ FailedWrites \cap {i \in 1..Len(batch.item) : batch.item[i] = "updated"} = {}
    /\ batch.pc = "done" =>
          \A i \in 1..Len(batch.item) : batch.item[i] \in {"skipped", "updated"}

\* a finished run in which a write failed and a later plan was updated
C7_Witness ==
    /\ batch.pc = "done"
    /\ \E i \in FailedWrites :
          \E j \in (i + 1)..Len(batch.item) : batch.item[j] = "updated"

\* the service row and the names the batch computes for plan i (lines 37-43)
ItemServiceRow(i) == RowById(Services, batch.plans[i].service_id)
ItemServiceName(i) ==
    PyOr(ItemServiceRow(i).row.name, ItemServiceRow(i).row.display_name)
ItemPlanName(i) == batch.plans[i].plan_name

\* None or the empty string
IsEmpty(v) == v.t = "None" \/ (v.t = "str" /\ v.s = <<>>)

\* None, the empty string or a string of blanks
IsBlank(v) == v.t = "None" \/ (v.t = "str" /\ Strip(v.s) = <<>>)

\* find_price has returned price null, confidence low, and called no backend
FindPriceRejected ==
    /\ fp.pc = "returned"
    /\ fp.result.price.t = "None"
    /\ fp.result.confidence = "low"
    /\ fp.searches = 0
    /\ fp.extractions = 0

\* item i of the batch is skipped and has called no backend
ItemRejected(i) ==
    /\ batch.item[i] = "skipped"
    /\ batch.searches[i] = 0
    /\ batch.extractions[i] = 0
    /\ batch.writes[i] = 0

\* items of the batch that have begun and whose service matched
BegunMatched ==
    {i \in 1..Len(batch.item) :
        batch.item[i] # "pending" /\ Truthy(ItemServiceRow(i))}

\* C8: with an empty (empty string or null) service or plan name, find_price
\* returns price null with confidence low and the batch skips the item, and
\* neither calls the search or the extraction backend.
C8_EmptyNameRejectedBeforeIO ==
    /\ fp.pc # "idle" /\ (IsEmpty(fp.service_name) \/ IsEmpty(fp.plan_name)) =>
          FindPriceRejected
    /\ \A i \in BegunMatched :
          IsEmpty(ItemServiceName(i)) \/ IsEmpty(ItemPlanName(i)) => ItemRejected(i)

\* find_price has rejected an empty plan name and the batch has skipped a
\* plan whose service has no name and a plan without a plan name
C8_Witness ==
    /\ FindPriceRejected
    /\ ~IsEmpty(fp.service_name)
    /\ IsEmpty(fp.plan_name)
    /\ \E i \in BegunMatched : IsEmpty(ItemServiceName(i)) /\ ItemRejected(i)
    /\ \E i \in BegunMatched : IsEmpty(ItemPlanName(i)) /\ ItemRejected(i)

\* C9: with a service or plan name that is empty or only blanks, find_price
\* returns price null with confidence low and the batch skips the item, and
\* neither calls the search or the extraction backend.
C9_BlankNameRejectedBeforeIO ==
    /\ fp.pc # "idle" /\ (IsBlank(fp.service_name) \/ IsBlank(fp.plan_name)) =>
          FindPriceRejected
    /\ \A i \in BegunMatched :
          IsBlank(ItemServiceName(i)) \/ IsBlank(ItemPlanName(i)) => ItemRejected(i)

\* the item the stored search results of the batch belong to
ResultsItem == IF batch.pc \in {"loop", "done"} THEN batch.idx - 1 ELSE batch.idx

\* the search of find_price returned well-typed results none of which passes
\* the authority filter
FpNoneAuthoritative ==
    /\ fp.results # <<>>
    /\ ~FilterOfficialRaises(fp.results)
    /\ FilterOfficialResults(fp.results, NormalizeServiceKey(fp.service_name)) = <<>>

\* the search of the current batch item returned well-typed results none of
\* which passes the authority filter
BatchNoneAuthoritative ==
    /\ batch.results # <<>>
    /\ ~CronFilterRaises(batch.results)
    /\ CronOfficialResults(batch.results,
                           CronNormalizeServiceKey(batch.service_name)) = <<>>

\* C10: when no search result passes the authority filter the run returns
\* price null with confidence low (the batch item is skipped) and has not
\* called the extraction backend.
C10_NoAuthoritativeSourceNoExtraction ==
    /\ FpNoneAuthoritative =>
          /\ fp.pc = "returned"
          /\ fp.result.price.t = "None"
          /\ fp.result.confidence = "low"
          /\ fp.extractions = 0
    /\ BatchNoneAuthoritative =>
          /\ batch.item[ResultsItem] = "skipped"
          /\ batch.extractions[ResultsItem] = 0
          /\ batch.writes[ResultsItem] = 0

\* both pipelines have ended a run at the filter, after one search call
C10_Witness ==
    /\ FpNoneAuthoritative
    /\ fp.pc = "returned"
    /\ fp.searches = 1
    /\ BatchNoneAuthoritative
    /\ batch.searches[ResultsItem] = 1
    /\ batch.item[ResultsItem] = "skipped"

\* C11: when the search call fails (no key, timeout, connection error, a
\* status that is not 2xx, a body the client cannot read) search_google hands
\* back the empty list without raising, and the run returns price null with
\* confidence low (the batch item is skipped, the batch goes on) without
\* calling the extraction backend.
C11_SearchFailureGivesLow ==
    /\ fp.search_failed =>
          /\ fp.results = <<>>
          /\ fp.pc = "returned"
          /\ fp.result.price.t = "None"
          /\ fp.result.confidence = "low"
          /\ fp.extractions = 0
    /\ batch.search_failed =>
          /\ batch.results = <<>>
          /\ batch.pc # "raised"
          /\ batch.item[ResultsItem] = "skipped"
          /\ batch.extractions[ResultsItem] = 0
          /\ batch.writes[ResultsItem] = 0

\* both pipelines have ended a run at a failed search
C11_Witness ==
    /\ fp.search_failed
    /\ fp.searches = 1
    /\ fp.pc = "returned"
    /\ batch.search_failed
    /\ batch.searches[ResultsItem] = 1
    /\ batch.item[ResultsItem] = "skipped"

\* the extraction call of the run ended without a usable text
NoTextAnswers == {"failed", "blank"}

\* C12: when the extraction call fails or answers with an empty or blank
\* text, the client hands back no text without raising and the run returns
\* price null with confidence low (the batch item is skipped without a
\* write); a blank answer gives the same result as a failure.
C12_ExtractionFailureGivesLow ==
    /\ \A er \in ExtractionResponses :
          ExtractionOutcome(er) \in NoTextAnswers => ~Truthy(AskGemini(er))
    /\ fp.answer \in NoTextAnswers =>
          /\ fp.pc = "returned"
          /\ fp.result = LowResult(fp.source)
    /\ batch.answer \in NoTextAnswers =>
          /\ batch.pc # "raised"
          /\ batch.item[ResultsItem] = "skipped"
          /\ batch.writes[ResultsItem] = 0

\* find_price has returned after a blank answer and the batch has skipped an
\* item whose extraction call failed
C12_Witness ==
    /\ fp.answer = "blank"
    /\ fp.extractions = 1
    /\ fp.result.confidence = "low"
    /\ batch.answer = "failed"
    /\ batch.extractions[ResultsItem] = 1
    /\ batch.item[ResultsItem] = "skipped"

\* the amount find_price parsed is absent or zero
NoUsableAmount == fp.price_decimal.t = "None" \/ fp.price_decimal.c = 0

\* C13: every result find_price returns has confidence high or low; it is
\* high exactly when the price is present and strictly positive, and a
\* parsed amount that is absent or zero (the text "0", a text without a
\* number) gives confidence low with price null.
C13_HighIffPositivePrice ==
    fp.pc = "returned" =>
        /\ fp.result.confidence \in {"low", "high"}
        /\ fp.result.confidence = "high" <=>
               (fp.result.price.t = "num" /\ fp.result.price.c > 0)
        /\ fp.result.confidence = "low" => fp.result.price.t = "None"
        /\ NoUsableAmount <=> fp.result.confidence = "low"
        /\ ~NoUsableAmount => fp.result.price = fp.price_decimal
        /\ fp.answer = "text" /\ fp.raw_response.s = <<"0">> => NoUsableAmount
        /\ fp.answer = "text" /\ ExtractDecimal(fp.raw_response.s).t = "None" =>
               NoUsableAmount

\* find_price has classified an answer that parses to the amount zero
C13_Witness ==
    /\ fp.pc = "returned"
    /\ fp.answer = "text"
    /\ fp.raw_response.s # <<"0">>
    /\ fp.price_decimal.t = "num"
    /\ fp.price_decimal.c = 0
    /\ fp.result.confidence = "low"

\* w consists of digits only
IsDigits(w) == \A k \in 1..Len(w) : w[k] \in Digits

\* w is 1-5 digits, a '.' or ',' and 1-2 digits
DecimalShape(w) ==
    \E n \in 1..5, f \in 1..2 :
        /\ Len(w) = n + 1 + f
        /\ IsDigits(SubSeq(w, 1, n))
        /\ w[n + 1] \in {".", ","}
        /\ IsDigits(SubSeq(w, n + 2, n + 1 + f))

\* w is 2-6 digits
IntegerShape(w) == Len(w) \in 2..6 /\ IsDigits(w)

\* the occurrences <<i, j>> of a shape in a text
Occurrences(text, Shape(_)) ==
    {p \in (1..Len(text)) \X (1..Len(text)) :
        p[1] <= p[2] /\ Shape(SubSeq(text, p[1], p[2]))}

\* the first occurrence, taken as long as it can be
FirstOccurrence(text, Shape(_)) ==
    LET occ == Occurrences(text, Shape)
        p == CHOOSE p \in occ :
                 \A q \in occ : p[1] < q[1] \/ (p[1] = q[1] /\ p[2] >= q[2])
    IN  SubSeq(text, p[1], p[2])

\* the number a string of digits denotes
RECURSIVE ReadNat(_)
ReadNat(w) ==
    IF w = <<>> THEN 0
    ELSE 10 * ReadNat(SubSeq(w, 1, Len(w) - 1)) + DigitVal(w[Len(w)])

\* hundredths of a numeral of the decimal shape, ',' read as '.'
ReadDecimal(w) ==
    LET k == CHOOSE k \in 1..Len(w) : w[k] \in {".", ","}
        fraction == SubSeq(w, k + 1, Len(w))
    IN  100 * ReadNat(SubSeq(w, 1, k - 1))
          + (IF Len(fraction) = 1 THEN 10 * ReadNat(fraction) ELSE ReadNat(fraction))

\* the reference algorithm on a text: the amount in hundredths, or PyNone
Reference(text) ==
    IF Strip(text) = <<"0">> THEN PyNone
    ELSE IF Occurrences(text, DecimalShape) # {}
    THEN PyNum(ReadDecimal(FirstOccurrence(text, DecimalShape)))
    ELSE IF Occurrences(text, IntegerShape) # {}
    THEN PyNum(100 * ReadNat(FirstOccurrence(text, IntegerShape)))
    ELSE PyNone

\* the same amount, or both none
SameValue(a, b) == a.t = b.t /\ (a.t = "num" => a.c = b.c)

\* what the parse stage of find_price made of the answer: the short cut for
\* "0" is the one amount it marks as not usable
ParserValue ==
    IF Strip(fp.raw_response.s) = <<"0">> /\ fp.price_decimal.t = "num"
                                           /\ fp.price_decimal.c = 0
    THEN PyNone
    ELSE fp.price_decimal

\* the answer find_price has parsed is the given text
Parsed(text) ==
    fp.pc = "returned" /\ fp.answer = "text" /\ fp.raw_response.s = text

\* C14: on every answer the parse stage gives what the reference algorithm
\* gives: no usable value for "0", else the first 1-5 digit / separator / 1-2
\* digit numeral with ',' read as '.', else the first run of 2-6 digits as an
\* integer, else no value; "229.99" and "229,99" give 229.99, "199" gives 199,
\* "0" and "fiyat bulunamadi" give nothing.
C14_ParserEqualsReference ==
    /\ fp.pc = "returned" /\ fp.answer = "text" =>
          /\ SameValue(ParserValue, Reference(fp.raw_response.s))
          /\ Reference(fp.raw_response.s).t = "None" => fp.result.price.t = "None"
    /\ Parsed(<<"2", "2", "9", ".", "9", "9">>) => fp.price_decimal = PyNum(22999)
    /\ Parsed(<<"2", "2", "9", ",", "9", "9">>) => fp.price_decimal = PyNum(22999)
    /\ Parsed(<<"1", "9", "9">>) => fp.price_decimal = PyNum(19900)
    /\ Parsed(<<"0">>) => fp.result.price.t = "None"
    /\ Parsed(<<"f", "i", "y", "a", "t", " ", "b", "u", "l", "u", "n", "a", "m", "a", "d", "i">>) =>
          fp.price_decimal.t = "None"

\* the parser has taken the decimal numeral that follows a bare integer
C14_Witness ==
    /\ Parsed(<<"a", " ", "1", "9", "9", " ", "T", "L", " ", "2", "4", "9", ",", "9", "0">>)
    /\ fp.price_decimal = PyNum(24990)
    /\ fp.result.confidence = "high"

\* the step changes the cached price, the currency or the timestamp of a plan
PlanPriceChanges ==
    \/ Len(service_plans') # Len(service_plans)
    \/ \E i \in 1..Len(service_plans) :
          \/ service_plans'[i].cached_price # service_plans[i].cached_price
          \/ service_plans'[i].currency # service_plans[i].currency
          \/ service_plans'[i].last_updated_ai # service_plans[i].last_updated_ai

\* the step is one of find_price or of a subscription handler
OnDemandOrSubscriptionStep ==
    fp' # fp \/ subscriptions' # subscriptions \/ resp' # resp

\* C15: in every step of on-demand price requests, subscription create,
\* update, toggle, delete and read operations and batch runs, a plan's cached
\* price, currency and timestamp change only in the write step of the batch
\* scheduler; no step of find_price or of a subscription handler changes the
\* plans table.
C15_OnlyBatchWritesCachedPrice ==
    [][/\ PlanPriceChanges => BatchExtractReturn
       /\ OnDemandOrSubscriptionStep => service_plans' = service_plans]_vars

\* the batch has cached a new price, find_price has returned a price and the
\* user's subscription has been deleted
C15_Witness ==
    /\ service_plans[1].last_updated_ai > 0
    /\ fp.pc = "returned"
    /\ fp.result.confidence = "high"
    /\ resp.op = "delete"
    /\ subscriptions = <<>>

\* the status the stored amount and the stored cached price call for once
\* the step is done: update_required when the linked plan has a cached price
\* that is positive and differs from the amount
StatusOfStored(sub) ==
    LET plan == RowById(service_plans', sub.service_plan_id)
    IN  IF /\ plan.t = "row"
           /\ plan.row.cached_price.t = "num"
           /\ plan.row.cached_price.c > 0
           /\ plan.row.cached_price.c # sub.amount.c
        THEN "update_required"
        ELSE "none"

\* the row a handler returns in this step shows the stored subscription and
\* the status its stored values call for
ReadIsCurrent(row) ==
    \E i \in 1..Len(subscriptions') :
        /\ subscriptions'[i].id = row.id
        /\ subscriptions'[i].amount = row.amount
        /\ row.price_alert_status = StatusOfStored(subscriptions'[i])

\* no stored row has a price_alert_status column
StatusNotStored ==
    /\ \A i \in 1..Len(subscriptions') :
          "price_alert_status" \notin DOMAIN subscriptions'[i]
    /\ \A i \in 1..Len(service_plans') :
          "price_alert_status" \notin DOMAIN service_plans'[i]

\* C16: under any interleaving of subscription updates and batch writes,
\* every subscription a handler returns (list, get by id, the answer of
\* update, toggle and create) carries the status that the amount and the
\* cached price stored at that read call for; the status is in no stored row,
\* and an update that sets the amount to the cached price returns none.
C16_StatusComputedAtRead ==
    [][/\ resp' # resp =>
             \A k \in 1..Len(resp'.rows) :
                 WellFormedRow(resp'.rows[k]) => ReadIsCurrent(resp'.rows[k])
       /\ StatusNotStored]_vars

\* after the batch cached a new price an update set the amount to it and
\* was answered with none
C16_Witness ==
    /\ resp.op = "update"
    /\ Len(resp.rows) = 1
    /\ resp.rows[1].service_plans.t = "row"
    /\ resp.rows[1].service_plans.row.last_updated_ai > 0
    /\ resp.rows[1].service_plans.row.cached_price.t = "num"
    /\ resp.rows[1].service_plans.row.cached_price.c = resp.rows[1].amount.c
    /\ resp.rows[1].price_alert_status = "none"

\* two Python values are the same text
SameName(a, b) == a.t = b.t /\ (a.t = "str" => a.s = b.s)

\* an item of a batch run has ended
Terminal == {"skipped", "updated"}

\* find_price returned for the names of the remembered call
FindPriceRanTwice ==
    /\ past.find_price.ran
    /\ fp.pc = "returned"
    /\ SameName(fp.service_name, past.find_price.service_name)
    /\ SameName(fp.plan_name, past.find_price.plan_name)

\* item i has ended in the remembered batch run and in this one
ItemRanTwice(i) ==
    /\ past.batch_runs > 0
    /\ i \in DOMAIN batch.item
    /\ i \in DOMAIN past.batch_item
    /\ batch.item[i] \in Terminal
    /\ past.batch_item[i] \in Terminal

\* C17: against a backend that answers every search and every extraction
\* the same way, a second run of a pipeline for the same service and plan
\* name gives what the first gave: find_price returns the same price and the
\* same confidence, and the batch pipeline finds a price for an item exactly
\* when it did before and writes the same amount, whatever the first run
\* stored.
C17_RerunsAgree ==
    /\ FindPriceRanTwice =>
         /\ SameValue(fp.result.price, past.find_price.result.price)
         /\ fp.result.confidence = past.find_price.result.confidence
    /\ \A i \in 1..Len(service_plans) :
         ItemRanTwice(i) =>
           /\ batch.writes[i] = past.batch_writes[i]
           /\ (batch.item[i] = "updated" /\ past.batch_item[i] = "updated") =>
                SameValue(service_plans[i].cached_price,
                          batch.plans[i].cached_price)

\* both pipelines have run twice for the same names: find_price returned a
\* high-confidence price again and the batch wrote row 1 again
C17_Witness ==
    /\ FindPriceRanTwice
    /\ fp.result.confidence = "high"
    /\ past.find_price.result.confidence = "high"
    /\ ItemRanTwice(1)
    /\ batch.item[1] = "updated"
    /\ past.batch_item[1] = "updated"
    /\ service_plans[1].cached_price.t = "num"
    /\ service_plans[1].cached_price.c # 14999

\* C18: whatever count the caller asks for, the count search_google sends to
\* the search backend is the smaller of that count and 10, and so never
\* above 10.
C18_SentCountCapped ==
    search.sent =>
      /\ search.num <= 10
      /\ search.num = IF search.num_results < 10 THEN search.num_results ELSE 10

\* a caller asked for more than 10 results and the request went out with 10
C18_Witness ==
    /\ search.sent
    /\ search.pc = "returned"
    /\ search.num_results > 10
    /\ search.num = 10

\* item i keeps the terminal state it has reached
ItemStaysTerminal(i) ==
    (i \in DOMAIN batch.item /\ batch.item[i] \in Terminal) =>
        batch'.item[i] = batch.item[i]

\* item i, once the step is taken, is where the state machine puts it: a
\* plan without a service row is skipped with no backend call and no write;
\* an updated item has had one write, of a present amount above zero; a
\* skipped item has had no write, or one that failed and left the row alone;
\* an item not yet begun has had no call and no write
ItemWhereItBelongs(i) ==
    /\ batch'.item[i] \in {"pending", "running", "skipped", "updated"}
    /\ batch'.item[i] = "pending" =>
         /\ batch'.searches[i] = 0
         /\ batch'.extractions[i] = 0
         /\ batch'.writes[i] = 0
    /\ (batch'.item[i] \in Terminal /\ ~Truthy(ItemServiceRow(i)')) =>
         /\ batch'.item[i] = "skipped"
         /\ batch'.searches[i] = 0
         /\ batch'.extractions[i] = 0
         /\ batch'.writes[i] = 0
    /\ batch'.item[i] = "updated" =>
         /\ batch'.writes[i] = 1
         /\ service_plans'[i].cached_price.t = "num"
         /\ service_plans'[i].cached_price.c > 0
    /\ batch'.item[i] = "skipped" =>
         /\ batch'.writes[i] \in {0, 1}
         /\ service_plans'[i] = batch'.plans[i]

\* the item the step has ended had a failed search or no extraction text:
\* its pipeline result was low, it is skipped and nothing was written
LowEndsSkipped(i) ==
    (/\ i \in DOMAIN batch.item
     /\ batch.item[i] = "running"
     /\ batch'.item[i] \in Terminal
     /\ batch'.search_failed \/ batch'.answer \in {"failed", "blank"}) =>
        /\ batch'.item[i] = "skipped"
        /\ batch'.writes[i] = 0

\* a run that has ended has left no item pending or running
RunEndsAllTerminal(i) ==
    batch'.pc \in {"done", "raised"} => batch'.item[i] \in Terminal

\* C19: in a batch run every plan item goes from pending to one of skipped
\* and updated and stays there: a plan without a service is skipped with no
\* backend call, a low-confidence result is skipped with no write, a
\* high-confidence result is updated with exactly one write, and no run ends
\* with an item that has not reached a terminal state.
C19_ItemStateMachine ==
    [][\A i \in 1..Len(batch'.item) :
          /\ ItemStaysTerminal(i)
          /\ ItemWhereItBelongs(i)
          /\ LowEndsSkipped(i)
          /\ RunEndsAllTerminal(i)]_vars

\* no stage after the search has left a trace in the running find_price call
NothingAfterSearch ==
    /\ fp.results = <<>>
    /\ fp.official = <<>>
    /\ fp.extractions = 0

\* neither the parser nor the classifier has left a trace
NothingAfterExtraction ==
    /\ fp.answer = "none"
    /\ fp.raw_response.t = "None"
    /\ fp.price_decimal.t = "None"
    /\ fp.result.confidence = ""

\* C20: in one find_price run the search backend is called at most once, the
\* authority filter has run only on results a returned search gave, the
\* extraction backend is called at most once and only with a filter result
\* that is not empty, and a price is parsed and classified only from an
\* answer the extraction backend has returned.
C20_StagesInOrder ==
    /\ fp.searches <= 1
    /\ fp.extractions <= 1
    /\ fp.pc = "search" =>
         fp.searches = 1 /\ NothingAfterSearch /\ NothingAfterExtraction
    /\ fp.official # <<>> => fp.searches = 1 /\ fp.results # <<>>
    /\ fp.extractions = 1 =>
         /\ fp.official # <<>>
         /\ fp.pc \in {"extract", "answered", "returned"}
    /\ fp.pc = "extract" => fp.extractions = 1 /\ NothingAfterExtraction
    /\ (fp.price_decimal.t # "None" \/ fp.result.confidence = "high") =>
         /\ fp.extractions = 1
         /\ fp.answer = "text"
         /\ fp.pc = "returned"

\* a run that went through every stage once and returned a usable price
C20_Witness ==
    /\ fp.pc = "returned"
    /\ fp.searches = 1
    /\ fp.extractions = 1
    /\ fp.official # <<>>
    /\ fp.answer = "text"
    /\ fp.result.confidence = "high"

\* item i of the batch has ended without a failed write, and find_price has
\* returned for the names the batch computed for it
SameInputs(i) ==
    /\ batch.item[i] \in Terminal
    /\ i \notin FailedWrites
    /\ Truthy(ItemServiceRow(i))
    /\ fp.pc = "returned"
    /\ SameName(fp.service_name, ItemServiceName(i))
    /\ SameName(fp.plan_name, ItemPlanName(i))

\* C21: for the same service name, plan name, search results and extraction
\* text, the batch marks an item updated exactly when find_price returns
\* confidence high, and the amount it stores is the price find_price returns.
C21_BatchEqualsOnDemand ==
    \A i \in 1..Len(batch.item) :
        SameInputs(i) =>
          /\ batch.item[i] = "updated" <=> fp.result.confidence = "high"
          /\ batch.item[i] = "updated" =>
               SameValue(service_plans[i].cached_price, fp.result.price)

\* the lower-cased text of a field, empty when the field is null
LowerText(v) == IF v.t = "str" THEN Lower(v.s) ELSE <<>>

\* every url and display domain of the results is text or null
WellTyped(results) ==
    \A i \in 1..Len(results) :
        /\ results[i].link.t \in {"str", "None"}
        /\ results[i].displayLink.t \in {"str", "None"}

\* the suffixes registered for a key
SuffixesOf(key) == UNION { e.doms : e \in {x \in OFFICIAL_DOMAINS : x.key = key} }

\* the rule of the claim for one result
RuleKeeps(r, key) ==
    LET url == LowerText(r.link)
        domain == LowerText(r.displayLink)
    IN  \/ /\ SuffixesOf(key) # {}
           /\ \E d \in SuffixesOf(key) : Contains(url, d) \/ Contains(domain, d)
        \/ /\ SuffixesOf(key) = {}
           /\ key # <<>>
           /\ \/ Contains(url, key) \/ Contains(domain, key)
              \/ StartsWith(url, key \o <<".">>)
              \/ StartsWith(domain, key \o <<".">>)

\* the ranks of the results the rule keeps
KeptRanks(results, key) == {i \in 1..Len(results) : RuleKeeps(results[i], key)}

\* the k-th smallest rank of a set of ranks
RankNumber(ranks, k) ==
    CHOOSE i \in ranks : Cardinality({j \in ranks : j <= i}) = k

\* the filter of the running find_price call has returned
FilterReturned ==
    /\ fp.searches = 1
    /\ fp.pc \in {"extract", "returned", "raised"}
    /\ WellTyped(fp.results)

\* C22: the authority filter keeps exactly the results the rule names (a
\* registered suffix in the lower-cased url or display domain for a
\* registered key; the key as a substring or as a "key." prefix for a
\* non-empty key without registration), in the rank order of the input.
C22_FilterKeepsExactly ==
    FilterReturned =>
      LET key == NormalizeServiceKey(fp.service_name)
          ranks == KeptRanks(fp.results, key)
      IN  /\ Len(fp.official) = Cardinality(ranks)
          /\ \A k \in 1..Len(fp.official) :
                fp.official[k] = fp.results[RankNumber(ranks, k)]

\* the filter dropped the first of two results and kept the second
C22_Witness ==
    /\ FilterReturned
    /\ Len(fp.results) = 2
    /\ Len(fp.official) = 1
    /\ fp.official[1] = fp.results[2]
    /\ SuffixesOf(NormalizeServiceKey(fp.service_name)) # {}

\* row i holds what the run read, or the whole of what the write of item i
\* set: an amount, the currency TRY and the time of the write, the other
\* columns as they were
RowWholeAfter(i) ==
    \/ service_plans'[i] = batch'.plans[i]
    \/ /\ batch'.item[i] = "updated"
       /\ service_plans'[i].cached_price.t = "num"
       /\ service_plans'[i].currency = "TRY"
       /\ service_plans'[i].last_updated_ai > batch'.plans[i].last_updated_ai
       /\ service_plans'[i] =
            [batch'.plans[i] EXCEPT
               !.cached_price = service_plans'[i].cached_price,
               !.currency = "TRY",
               !.last_updated_ai = service_plans'[i].last_updated_ai]

\* the step writes row i: it is the one write of the item in hand, made once
\* the extraction has answered, and it sets the three columns at once
WriteOfItem(i) ==
    service_plans'[i] # service_plans[i] =>
      /\ i = batch.idx
      /\ batch.pc = "extract"
      /\ batch.writes[i] = 0
      /\ batch'.writes[i] = 1
      /\ batch'.extractions[i] = 1
      /\ service_plans'[i].currency = "TRY"
      /\ service_plans'[i].last_updated_ai = clock
      /\ \A j \in 1..Len(service_plans) : j # i => service_plans'[j] = service_plans[j]

\* the amount a write left in row i is a usable price: present and above zero
WrittenIsUsable(i) ==
    service_plans'[i] # batch'.plans[i] =>
      /\ service_plans'[i].cached_price.t = "num"
      /\ service_plans'[i].cached_price.c > 0

\* C23: an item of the batch writes at most once, only when its pipeline run
\* has ended with a usable price, and the write sets cached price, currency
\* and timestamp of that plan's row together; wherever the run is abandoned,
\* every row holds its values from before the run or the whole of one
\* finished item's write, and a write leaves the other rows alone.
C23_OneWholeWritePerItem ==
    [][\A i \in 1..Len(batch'.item) :
          /\ batch'.writes[i] <= 1
          /\ i \in DOMAIN batch.item => WriteOfItem(i)
          /\ RowWholeAfter(i)
          /\ WrittenIsUsable(i)]_vars

\* a step that changes row i is the write of the running batch call for the
\* plan of that row: it sets amount, currency and timestamp at once, to the
\* given kind of amount, and changes no other row
WholeWrite(i, Amount(_)) ==
    service_plans'[i] # service_plans[i] =>
      /\ batch.pc = "extract"
      /\ batch.plans[batch.idx].id = service_plans[i].id
      /\ Amount(service_plans'[i].cached_price)
      /\ service_plans'[i] =
           [service_plans[i] EXCEPT
              !.cached_price = service_plans'[i].cached_price,
              !.currency = "TRY",
              !.last_updated_ai = clock]
      /\ \A j \in 1..Len(service_plans) : j # i => service_plans'[j] = service_plans[j]

\* row i is the row the table began with, or that row with the amount, the
\* currency and the timestamp of one write
InitialOrOneWrite(i, Amount(_)) ==
    \/ service_plans'[i] = TwoPlans[i]
    \/ /\ Amount(service_plans'[i].cached_price)
       /\ service_plans'[i].last_updated_ai \in 1..(clock' - 1)
       /\ service_plans'[i] =
            [TwoPlans[i] EXCEPT
               !.cached_price = service_plans'[i].cached_price,
               !.currency = "TRY",
               !.last_updated_ai = service_plans'[i].last_updated_ai]

\* an amount of a high-confidence result: present and above zero
HighAmount(price) == price.t = "num" /\ price.c > 0

\* C24: while two batch runs interleave at their backend calls, every row is
\* the row the table began with or carries the amount, currency and
\* timestamp of one write of a high-confidence amount; no step mixes the
\* columns of two writes or stores an amount that is not of high confidence.
C24_ConcurrentRunsKeepRowsWhole ==
    [][\A i \in 1..Len(service_plans) :
          /\ WholeWrite(i, HighAmount)
          /\ InitialOrOneWrite(i, HighAmount)]_vars

\* the batch has ended over a second order of the table
BothOrdersEnded ==
    /\ past.reordered
    /\ batch.pc \in {"done", "raised"}

\* C25: with plans of distinct ids and backends whose answers depend on the
\* plan only, the batch over one order of the plan list and the batch over
\* another return the same summary and leave the same cached amount in the
\* row of every plan.
C25_OrderInsensitive ==
    BothOrdersEnded =>
      /\ batch.pc = past.batch_pc
      /\ batch.pc = "done" => Summary = past.batch_summary
      /\ \A i, j \in 1..Len(service_plans) :
            service_plans[i].id = past.batch_plans[j].id =>
              SameValue(service_plans[i].cached_price,
                        past.batch_plans[j].cached_price)

\* C26: each of the two backend calls of a pipeline run ends within its
\* timeout even when the backend never answers: a find_price call that waits
\* for the search or for the extraction returns its result, and an item of
\* the batch that waits for either goes on, so that the run reaches its end.
C26_EveryRunReturns ==
    /\ (fp.pc = "search") ~> (fp.pc \in {"extract", "returned", "raised"})
    /\ (fp.pc = "extract") ~> (fp.pc = "returned")
    /\ (batch.pc = "search") ~> (batch.pc \in {"extract", "loop", "raised"})
    /\ (batch.pc = "extract") ~> (batch.pc = "loop")

\* the status a read of the subscription gives when the plans are as in the
\* given table
StatusRead(sub, table) ==
    CalculatePriceAlertStatus(
        [id |-> sub.id, amount |-> sub.amount,
         service_plan_id |-> sub.service_plan_id, is_active |-> sub.is_active,
         service_plans |-> RowById(table, sub.service_plan_id)])

\* the discovery of plan i has failed in the running batch: the item was
\* skipped, or an exception ended the run in it, or its result was an amount
\* that is not of high confidence
DiscoveryFailed(i) ==
    \/ batch.item[i] = "skipped"
    \/ batch.pc = "raised" /\ batch.idx = i
    \/ batch.item[i] = "updated" /\ ~HighAmount(service_plans[i].cached_price)

\* C27: after the discovery of a plan has failed in a batch run, every
\* subscription linked to the plan reads the status it read on the table the
\* run began with, and reads none if the plan had no cached price.
C27_FailedDiscoveryKeepsStatus ==
    \A i \in 1..Len(batch.item), k \in 1..Len(subscriptions) :
        (DiscoveryFailed(i) /\ subscriptions[k].service_plan_id = batch.plans[i].id) =>
          /\ StatusRead(subscriptions[k], service_plans)
               = StatusRead(subscriptions[k], batch.plans)
          /\ batch.plans[i].cached_price.t = "None" =>
               StatusRead(subscriptions[k], service_plans) = "none"

\* the record boundary of the text block: a blank line
BlankLine == <<"\n", "\n">>

\* the snippets of the results, in their order
Snippets(results) == [i \in 1..Len(results) |-> results[i].snippet.s]

\* the results of the batch's search that its filter kept
BatchOfficial ==
    CronOfficialResults(batch.results, CronNormalizeServiceKey(batch.service_name))

\* C28: the text block handed to the extraction backend holds the snippet of
\* every result the authority filter kept, once each and in rank order
\* (alone in find_price, with title and link in the batch), a blank line
\* between consecutive results, and nothing of the results the filter
\* removed.
C28_ContextIsSurvivorsInOrder ==
    /\ (fp.pc \in {"extract", "returned"} /\ fp.extractions = 1) =>
          fp.context = Join(Snippets(fp.official), BlankLine)
    /\ batch.pc = "extract" =>
          batch.context =
            Join([i \in 1..Len(BatchOfficial) |-> CronContextPart(BatchOfficial[i])],
                 BlankLine)

\* the result has a link that is not empty
HasLink(r) == r.link.t = "str" /\ r.link.s # <<>>

\* the ranks of the results the authority rule keeps and that have a link
LinkedRanks(results, key) == {i \in KeptRanks(results, key) : HasLink(results[i])}

\* the call ended before or at the filter: invalid input, an empty search,
\* or no authoritative result
EndedByFilter == fp.pc = "returned" /\ fp.extractions = 0

\* C29: the source in a result of find_price, and in the answer of the
\* endpoint built from it, is null or the link of the first result that
\* passed the authority filter and has a non-empty link; it is null when the
\* call ended before or at the filter, and it is never the link of a result
\* the filter removed.
C29_SourceIsFirstSurvivorLink ==
    fp.pc = "returned" =>
      LET key == NormalizeServiceKey(fp.service_name)
          linked == LinkedRanks(fp.results, key)
          source == SmartPriceData(fp.result).source
      IN  /\ source = fp.result.source
          /\ source = IF EndedByFilter \/ linked = {}
                      THEN PyNone
                      ELSE fp.results[RankNumber(linked, 1)].link
          /\ \A i \in 1..Len(fp.results) :
                (HasLink(fp.results[i]) /\ i \notin KeptRanks(fp.results, key))
                   => source # fp.results[i].link

\* a call returned the link of the third result: the first passed the filter
\* without a link and the second was removed
C29_Witness ==
    /\ fp.pc = "returned"
    /\ fp.extractions = 1
    /\ Len(fp.results) = 3
    /\ KeptRanks(fp.results, NormalizeServiceKey(fp.service_name)) = {1, 3}
    /\ ~HasLink(fp.results[1])
    /\ HasLink(fp.results[2])
    /\ fp.result.source = fp.results[3].link

\* the times of the admitted requests of a client in the window of 60
\* seconds that begins at t
InWindow(c, t) ==
    {i \in DOMAIN rate_limiter.admitted[c] :
        t <= rate_limiter.admitted[c][i] /\ rate_limiter.admitted[c][i] < t + 60}

\* the admitted requests of a client that the cutoff of a request now would
\* still keep
StillInside(c) ==
    {i \in DOMAIN rate_limiter.admitted[c] :
        rate_limiter.admitted[c][i] > rate_limiter.now - 60}

\* no window of 60 seconds holds more than 60 admitted requests of a client
AtMostSixtyPerWindow ==
    \A c \in Clients :
        \A t \in {rate_limiter.admitted[c][i] : i \in DOMAIN rate_limiter.admitted[c]} :
            Cardinality(InWindow(c, t)) <= 60

\* a step of the middleware for a request
RequestHandled == rate_limiter'.handled = rate_limiter.handled + 1

\* the time of the request is not added to the list of the client
NotRecorded(c) ==
    /\ Len(rate_limiter'.requests[c]) <= Len(rate_limiter.requests[c])
    /\ rate_limiter'.admitted[c] = rate_limiter.admitted[c]

====
